---------------------------- MODULE Spec2Model ----------------------------
(***************************************************************************)
(* Ingestion / deduplication / promotion pipeline of finance-llm.          *)
(*                                                                         *)
(* Text is modelled as a sequence of one-character strings, so that the    *)
(* parsing, formatting, splitting and sorting the code performs on dates,  *)
(* file names and paths is computed rather than assumed.                   *)
(***************************************************************************)
EXTENDS Integers, Sequences, FiniteSets, TLC

(***************************************************************************)
(* The state of a project directory and of the commands run on it          *)
(***************************************************************************)

VARIABLES
  seen,          \* DedupStore: the seen_transactions table
  staging_dir,   \* journal/staging exists
  staging,       \* the *.journal files of journal/staging: name -> entries
  dirs,          \* the directories of journal/postings (paths below it)
  postings,      \* the *.journal files under journal/postings: path -> entries
  main_journal,  \* content of journal/main.journal (the manifest)
  wpc,           \* per ingestion run: where write_staging_journals stands
  w,             \* per ingestion run: locals of write_staging_journals
  ret,           \* what the last write_staging_journals call returned
  ppc,           \* where bin/post main stands
  p,             \* locals of bin/post main
  echo,          \* what the last bin/post run reported
  hist,          \* history of the runs, read by the properties only
  runs,          \* the runs begun, counted where their number is bounded
  now,           \* the reading of the clock (datetime.now)
  engine,        \* the RuleEngine object: its in-memory rule lists
  rule_files,    \* import/rules: payees.yaml and accounts.yaml, as text
  out,           \* the last call of a function called on its own, and its result
  cli,           \* where bin/ingest main stands, its locals and how it last ended
  imports        \* what a run leaves under import/: raw archive, canonical JSONL, state

(***************************************************************************)
(* Characters and strings                                                  *)
(***************************************************************************)

\* The characters the model's texts are made of, in code-point order.
Alphabet ==
  << "\n", " ", "!", "\"", "#", "$", "'", ",", "-", ".", "/",
     "0", "1", "2", "3", "4", "5", "6", "7", "8", "9",
     ":", ";",
     "A", "B", "C", "D", "E", "F", "G", "H", "I", "J", "K", "L", "M",
     "N", "O", "P", "Q", "R", "S", "T", "U", "V", "W", "X", "Y", "Z",
     "[", "\\", "]", "^", "_",
     "a", "b", "c", "d", "e", "f", "g", "h", "i", "j", "k", "l", "m",
     "n", "o", "p", "q", "r", "s", "t", "u", "v", "w", "x", "y", "z",
     "{", "|", "}" >>

OrdTable ==
  [c \in {Alphabet[i] : i \in 1..Len(Alphabet)} |-> CHOOSE i \in 1..Len(Alphabet) : Alphabet[i] = c]

\* ord(c)
Ord(c) == OrdTable[c]

Digits == {"0", "1", "2", "3", "4", "5", "6", "7", "8", "9"}

IsDigit(c) == c \in Digits

\* \s of Python's re module, on the characters of Alphabet
IsSpace(c) == c \in {" ", "\n"}

DigitVal(c) == Ord(c) - Ord("0")

\* int() of a string of digits
RECURSIVE ToInt(_)
ToInt(s) ==
  IF s = << >> THEN 0 ELSE 10 * ToInt(SubSeq(s, 1, Len(s) - 1)) + DigitVal(s[Len(s)])

AllDigits(s) == \A i \in 1..Len(s) : IsDigit(s[i])

\* str < str of Python: lexicographic by code point
RECURSIVE StrLess(_, _)
StrLess(a, b) ==
  IF b = << >> THEN FALSE
  ELSE IF a = << >> THEN TRUE
  ELSE IF a[1] = b[1] THEN StrLess(Tail(a), Tail(b))
  ELSE Ord(a[1]) < Ord(b[1])

\* sorted() of a set of strings
RECURSIVE SortedStrings(_)
SortedStrings(S) ==
  IF S = {} THEN << >>
  ELSE LET m == CHOOSE x \in S : \A y \in S \ {x} : StrLess(x, y)
       IN  << m >> \o SortedStrings(S \ {m})

\* position of the first occurrence of character c in s, 0 if there is none
FirstIndex(s, c) ==
  IF \E i \in 1..Len(s) : s[i] = c
  THEN CHOOSE i \in 1..Len(s) : s[i] = c /\ \A j \in 1..(i - 1) : s[j] # c
  ELSE 0

\* str.split(sep)[0]
SplitHead(s, c) ==
  IF FirstIndex(s, c) = 0 THEN s ELSE SubSeq(s, 1, FirstIndex(s, c) - 1)

\* the rest of s after the first occurrence of c (empty if there is none)
SplitRest(s, c) ==
  IF FirstIndex(s, c) = 0 THEN << >> ELSE SubSeq(s, FirstIndex(s, c) + 1, Len(s))

\* the lines of a text, as iterating over a file yields them (each with its
\* line terminator)
RECURSIVE Lines(_)
Lines(s) ==
  IF s = << >> THEN << >>
  ELSE IF FirstIndex(s, "\n") = 0 THEN << s >>
  ELSE << SubSeq(s, 1, FirstIndex(s, "\n")) >> \o Lines(SplitRest(s, "\n"))

IsPrefix(a, b) == Len(a) <= Len(b) /\ SubSeq(b, 1, Len(a)) = a

\* the elements of a sequence
Range(s) == {s[i] : i \in 1..Len(s)}

(***************************************************************************)
(* Dates                                                                   *)
(***************************************************************************)

IsLeap(y) == (y % 4 = 0 /\ y % 100 # 0) \/ y % 400 = 0

DaysInMonth(y, m) ==
  IF m = 2 THEN (IF IsLeap(y) THEN 29 ELSE 28)
  ELSE IF m \in {4, 6, 9, 11} THEN 30 ELSE 31

\* %m of strptime: 1[0-2] | 0[1-9] | [1-9]
MonthToken(s) ==
  \/ Len(s) = 2 /\ s[1] = "1" /\ s[2] \in {"0", "1", "2"}
  \/ Len(s) = 2 /\ s[1] = "0" /\ IsDigit(s[2]) /\ s[2] # "0"
  \/ Len(s) = 1 /\ IsDigit(s[1]) /\ s[1] # "0"

\* %d of strptime: 3[01] | [12]\d | 0[1-9] | [1-9] | " "[1-9]
DayToken(s) ==
  \/ Len(s) = 2 /\ s[1] = "3" /\ s[2] \in {"0", "1"}
  \/ Len(s) = 2 /\ s[1] \in {"1", "2"} /\ IsDigit(s[2])
  \/ Len(s) = 2 /\ s[1] \in {"0", " "} /\ IsDigit(s[2]) /\ s[2] # "0"
  \/ Len(s) = 1 /\ IsDigit(s[1]) /\ s[1] # "0"

DayVal(s) == IF s[1] = " " THEN DigitVal(s[2]) ELSE ToInt(s)

\* datetime.strptime(s, "%Y-%m-%d") succeeds (no ValueError)
StrptimeOk(s) ==
  /\ Len(s) >= 8
  /\ AllDigits(SubSeq(s, 1, 4))
  /\ s[5] = "-"
  /\ LET rest == SubSeq(s, 6, Len(s))
         mt   == SplitHead(rest, "-")
         dt   == SplitRest(rest, "-")
     IN  /\ FirstIndex(rest, "-") # 0
         /\ MonthToken(mt)
         /\ DayToken(dt)
         /\ ToInt(SubSeq(s, 1, 4)) >= 1
         /\ DayVal(dt) <= DaysInMonth(ToInt(SubSeq(s, 1, 4)), ToInt(mt))

\* datetime.strptime(s, "%Y-%m-%d").strftime("%Y-%m"), for years of four digits
StrftimeYearMonth(s) ==
  LET mt == SplitHead(SubSeq(s, 6, Len(s)), "-")
  IN  SubSeq(s, 1, 4) \o << "-" >> \o (IF Len(mt) = 1 THEN << "0" >> \o mt ELSE mt)

Unknown == << "u", "n", "k", "n", "o", "w", "n" >>

\* the month key write_staging_journals groups a transaction date by
\* a key by the year alone: strftime("%Y")
month_key_year(date) == IF StrptimeOk(date) THEN SubSeq(date, 1, 4) ELSE Unknown

month_key(date) == IF StrptimeOk(date) THEN StrftimeYearMonth(date) ELSE Unknown

\* re.match(r"^(\d{4})-(\d{2})-\d{2}\s", line) succeeds
DateLineMatch(line) ==
  /\ Len(line) >= 11
  /\ AllDigits(SubSeq(line, 1, 4))
  /\ line[5] = "-"
  /\ AllDigits(SubSeq(line, 6, 7))
  /\ line[8] = "-"
  /\ AllDigits(SubSeq(line, 9, 10))
  /\ IsSpace(line[11])

\* f"{match.group(1)}-{match.group(2)}"
DateLineMonth(line) == SubSeq(line, 1, 4) \o << "-" >> \o SubSeq(line, 6, 7)

\* str.lower(), one character
Lower(c) ==
  IF Ord(c) >= Ord("A") /\ Ord(c) <= Ord("Z") THEN Alphabet[Ord(c) - Ord("A") + Ord("a")] ELSE c

RECURSIVE LowerStr(_)
LowerStr(s) == IF s = << >> THEN << >> ELSE << Lower(s[1]) >> \o LowerStr(Tail(s))

\* sub in s
Contains(s, sub) == \E i \in 1..(Len(s) - Len(sub) + 1) : SubSeq(s, i, i + Len(sub) - 1) = sub

\* str.strip()
RECURSIVE LStrip(_)
LStrip(s) == IF s # << >> /\ IsSpace(s[1]) THEN LStrip(Tail(s)) ELSE s

RECURSIVE RStrip(_)
RStrip(s) ==
  IF s # << >> /\ IsSpace(s[Len(s)]) THEN RStrip(SubSeq(s, 1, Len(s) - 1)) ELSE s

Strip(s) == RStrip(LStrip(s))

\* str.replace(sub, ""), sub not empty
RECURSIVE RemoveAll(_, _)
RemoveAll(s, sub) ==
  IF Len(s) < Len(sub) THEN s
  ELSE IF SubSeq(s, 1, Len(sub)) = sub THEN RemoveAll(SubSeq(s, Len(sub) + 1, Len(s)), sub)
  ELSE << s[1] >> \o RemoveAll(Tail(s), sub)

(***************************************************************************)
(* Fingerprinter (lib/fingerprint.py)                                      *)
(***************************************************************************)

\* re.sub(r"[^a-z0-9\s]", "", s)
RECURSIVE KeepAlnumSpace(_)
KeepAlnumSpace(s) ==
  IF s = << >> THEN << >>
  ELSE IF \/ IsDigit(s[1]) \/ IsSpace(s[1])
          \/ (Ord(s[1]) >= Ord("a") /\ Ord(s[1]) <= Ord("z"))
       THEN << s[1] >> \o KeepAlnumSpace(Tail(s))
       ELSE KeepAlnumSpace(Tail(s))

\* re.sub(r"\s+", " ", s)
RECURSIVE CollapseSpaces(_)
CollapseSpaces(s) ==
  IF s = << >> THEN << >>
  ELSE IF IsSpace(s[1])
       THEN << " " >> \o CollapseSpaces(LStrip(s))
       ELSE << s[1] >> \o CollapseSpaces(Tail(s))

normalize_payee(raw_payee) == CollapseSpaces(KeepAlnumSpace(LowerStr(Strip(raw_payee))))

\* hashlib.sha256(...).hexdigest(): the digest stands for the text hashed
\* (a collision-free hash)
sha256(text) == text

\* a digest salted with the number of fingerprints the store holds
fingerprint_salted(account, date, amount, payee, source_id) ==
  sha256(account \o << "|" >> \o date \o << "|" >> \o amount \o << "|" >>
         \o normalize_payee(payee) \o << "|" >> \o source_id
         \o [n \in 1..Cardinality(DOMAIN seen) |-> "#"])

fingerprint(account, date, amount, payee, source_id) ==
  sha256(account \o << "|" >> \o date \o << "|" >> \o amount \o << "|" >>
         \o normalize_payee(payee) \o << "|" >> \o source_id)

(***************************************************************************)
(* RuleEngine (lib/rules.py)                                               *)
(***************************************************************************)

Uncategorized ==
  << "E", "x", "p", "e", "n", "s", "e", "s", ":", "U", "n", "c", "a", "t", "e", "g", "o",
     "r", "i", "z", "e", "d" >>

Groceries ==
  << "E", "x", "p", "e", "n", "s", "e", "s", ":", "G", "r", "o", "c", "e", "r", "i", "e",
     "s" >>

\* the rules of import/rules/payees.yaml and accounts.yaml, in file order
payee_rules == << [pattern |-> << "A" >>, name |-> << "A", "l" >>] >>

account_rules == << [payee |-> << "a", "l" >>, account |-> Groceries] >>

\* str.split(sep), sep one character
RECURSIVE SplitAll(_, _)
SplitAll(s, c) ==
  IF FirstIndex(s, c) = 0 THEN << s >>
  ELSE << SplitHead(s, c) >> \o SplitAll(SplitRest(s, c), c)

\* The regular expressions of the rules: alternatives separated by "|", each
\* an optional "^" followed by literal characters and "." (any character but
\* a newline); compiled with re.IGNORECASE.
\* the alternative, without its "^", matches text at position i
BranchMatchesAt(branch, text, i) ==
  \A k \in 1..Len(branch) :
    /\ i + k - 1 <= Len(text)
    /\ \/ branch[k] = "." /\ text[i + k - 1] # "\n"
       \/ branch[k] # "." /\ Lower(branch[k]) = Lower(text[i + k - 1])

\* re.search of one alternative
BranchSearch(branch, text) ==
  IF branch # << >> /\ branch[1] = "^"
  THEN BranchMatchesAt(Tail(branch), text, 1)
  ELSE \E i \in 1..(Len(text) + 1) : BranchMatchesAt(branch, text, i)

\* PayeeRule.matches: re.compile(pattern, re.IGNORECASE).search(raw_payee)
matches(rule, raw_payee) ==
  \E b \in Range(SplitAll(rule.pattern, "|")) : BranchSearch(b, raw_payee)

\* the rules are tried from the last to the first
RECURSIVE last_payee_match(_, _)
last_payee_match(rules, raw_payee) ==
  IF rules = << >> THEN raw_payee
  ELSE IF matches(rules[Len(rules)], raw_payee) THEN rules[Len(rules)].name
  ELSE last_payee_match(SubSeq(rules, 1, Len(rules) - 1), raw_payee)

\* RuleEngine.normalize_payee, on the engine's payee rules
RECURSIVE first_payee_match(_, _)
first_payee_match(rules, raw_payee) ==
  IF rules = << >> THEN raw_payee
  ELSE IF matches(rules[1], raw_payee) THEN rules[1].name
  ELSE first_payee_match(Tail(rules), raw_payee)

rule_normalize_payee(raw_payee) == first_payee_match(payee_rules, raw_payee)

\* None
None == [none |-> TRUE]

\* RuleEngine.categorize, on the engine's account rules: the account, or None
RECURSIVE categorize(_, _)
categorize(rules, clean_payee) ==
  IF rules = << >> THEN None
  ELSE IF LowerStr(rules[1].payee) = LowerStr(clean_payee)
       THEN [none |-> FALSE, account |-> rules[1].account]
       ELSE categorize(Tail(rules), clean_payee)

\* x or "Expenses:Uncategorized": None and the empty string are falsy
or_uncategorized(x) == IF x.none \/ x.account = << >> THEN Uncategorized ELSE x.account

first_account_match(rules, clean_payee) == or_uncategorized(categorize(rules, clean_payee))

\* RuleEngine.apply: (clean_payee, account)
RuleEngine_apply(self, raw_payee) ==
  << first_payee_match(self.payee_rules, raw_payee),
     first_account_match(self.account_rules, first_payee_match(self.payee_rules, raw_payee)) >>

\* apply of the engine the ingestion runs are given
apply(raw_payee) ==
  RuleEngine_apply([payee_rules |-> payee_rules, account_rules |-> account_rules], raw_payee)

(***************************************************************************)
(* The rule files (lib/rules.py: yaml.dump in save, yaml.safe_load in      *)
(* _load_payees and _load_accounts), for rule texts made of letters,       *)
(* digits, spaces and the characters ^ | . ' # : -                         *)
(***************************************************************************)

KeyRules == << "r", "u", "l", "e", "s" >>
KeyName == << "n", "a", "m", "e" >>
KeyPattern == << "p", "a", "t", "t", "e", "r", "n" >>
KeyPayee == << "p", "a", "y", "e", "e" >>
KeyAccount == << "a", "c", "c", "o", "u", "n", "t" >>

\* characters a plain YAML scalar may not begin with
YamlIndicators == {"!", "#", "'", "-", ":", "[", "]", "|", " "}

\* a plain scalar of this text would be read back as an integer
resolves_int(text) == text # << >> /\ AllDigits(text)

\* the representer may not write the string as a plain scalar
needs_quotes(text) ==
  \/ text = << >>
  \/ text[1] \in YamlIndicators
  \/ text[Len(text)] \in {" ", ":"}
  \/ resolves_int(text)
  \/ Contains(text, << ":", " " >>)
  \/ Contains(text, << " ", "#" >>)

\* ' is written '' inside a single-quoted scalar
RECURSIVE quote_escape(_)
quote_escape(text) ==
  IF text = << >> THEN << >>
  ELSE (IF text[1] = "'" THEN << "'", "'" >> ELSE << text[1] >>) \o quote_escape(Tail(text))

RECURSIVE quote_unescape(_)
quote_unescape(text) ==
  IF text = << >> THEN << >>
  ELSE IF Len(text) >= 2 /\ text[1] = "'" /\ text[2] = "'"
       THEN << "'" >> \o quote_unescape(SubSeq(text, 3, Len(text)))
       ELSE << text[1] >> \o quote_unescape(Tail(text))

\* every string is written as a plain scalar
yaml_scalar_plain(text) == text

\* yaml.dump of a str
yaml_scalar(text) ==
  IF needs_quotes(text) THEN << "'" >> \o quote_escape(text) \o << "'" >> ELSE text

\* yaml.safe_load of a scalar: a str, or the int or the null a plain scalar
\* resolves to (kept apart from every str by its first element)
yaml_parse_scalar(text) ==
  IF text # << >> /\ text[1] = "'" THEN quote_unescape(SubSeq(text, 2, Len(text) - 1))
  ELSE IF resolves_int(text) THEN << "int" >> \o text
  ELSE IF text = << >> THEN << "null" >>
  ELSE text

\* one mapping of the list, block style, keys sorted (k1 < k2)
yaml_item(k1, v1, k2, v2) ==
  << "-", " " >> \o k1 \o << ":", " " >> \o yaml_scalar(v1) \o << "\n" >>
  \o << " ", " " >> \o k2 \o << ":", " " >> \o yaml_scalar(v2) \o << "\n" >>

RECURSIVE yaml_items(_)
yaml_items(items) ==
  IF items = << >> THEN << >>
  ELSE yaml_item(items[1][1], items[1][2], items[1][3], items[1][4]) \o yaml_items(Tail(items))

\* yaml.dump({"rules": [...]}, default_flow_style=False); an item is
\* << k1, v1, k2, v2 >>
yaml_dump(items) ==
  IF items = << >> THEN KeyRules \o << ":", " ", "[", "]", "\n" >>
  ELSE KeyRules \o << ":", "\n" >> \o yaml_items(items)

\* a line of an item: its key and its value
yaml_line_key(line) == SplitHead(SubSeq(line, 3, Len(line) - 1), ":")

yaml_line_value(line) ==
  yaml_parse_scalar(SubSeq(line, 3 + Len(yaml_line_key(line)) + 2, Len(line) - 1))

\* yaml.safe_load(f).get("rules"): the mappings, each as key -> value
yaml_load(text) ==
  LET lines == Lines(text)
      n     == (Len(lines) - 1) \div 2
  IN  [i \in 1..n |->
         [k \in {yaml_line_key(lines[2 * i]), yaml_line_key(lines[2 * i + 1])} |->
            IF k = yaml_line_key(lines[2 * i]) THEN yaml_line_value(lines[2 * i])
            ELSE yaml_line_value(lines[2 * i + 1])]]

NoFile == [exists |-> FALSE, text |-> << >>]

\* RuleEngine._load_payees
load_payees(file) ==
  IF ~file.exists THEN << >>
  ELSE LET data == yaml_load(file.text)
       IN  [i \in 1..Len(data) |-> [pattern |-> data[i][KeyPattern], name |-> data[i][KeyName]]]

\* RuleEngine._load_accounts
load_accounts(file) ==
  IF ~file.exists THEN << >>
  ELSE LET data == yaml_load(file.text)
       IN  [i \in 1..Len(data) |-> [payee |-> data[i][KeyPayee], account |-> data[i][KeyAccount]]]

\* RuleEngine.save, payees.yaml
dump_payees(rules) ==
  [exists |-> TRUE,
   text |-> yaml_dump([i \in 1..Len(rules) |->
                         << KeyName, rules[i].name, KeyPattern, rules[i].pattern >>])]

\* RuleEngine.save, accounts.yaml
dump_accounts(rules) ==
  [exists |-> TRUE,
   text |-> yaml_dump([i \in 1..Len(rules) |->
                         << KeyAccount, rules[i].account, KeyPayee, rules[i].payee >>])]

\* import/rules as installed: the files the ingestion runs load their rules
\* from
InstalledRuleFiles ==
  [payees |-> dump_payees(payee_rules), accounts |-> dump_accounts(account_rules)]

(***************************************************************************)
(* Canonical transactions fed to the StagingWriter                         *)
(***************************************************************************)

Chase == << "c", "h", "a", "s", "e" >>
Amex == << "a", "m", "e", "x" >>
AcctChase == << "l", ":", "c" >>
AcctAmex == << "l", ":", "a" >>

CanonicalTransaction(date, amount, payee, memo, account, source_id, institution) ==
  [date |-> date, amount |-> amount, payee |-> payee, memo |-> memo, account |-> account,
   source_id |-> source_id, institution |-> institution]

\* the fields of the dataclass, in the order asdict yields them
Fields == << "date", "amount", "payee", "memo", "account", "source_id", "institution" >>

\* the names of the fields as text
FieldName ==
  [date        |-> << "d", "a", "t", "e" >>,
   amount      |-> << "a", "m", "o", "u", "n", "t" >>,
   payee       |-> << "p", "a", "y", "e", "e" >>,
   memo        |-> << "m", "e", "m", "o" >>,
   account     |-> << "a", "c", "c", "o", "u", "n", "t" >>,
   source_id   |-> << "s", "o", "u", "r", "c", "e", "_", "i", "d" >>,
   institution |-> << "i", "n", "s", "t", "i", "t", "u", "t", "i", "o", "n" >>]

\* a string written without escaping anything
json_escape_none(text) == text

\* json.dumps of the characters of a str, ensure_ascii=False: the quote, the
\* backslash and the control characters are escaped
RECURSIVE json_escape(_)
json_escape(text) ==
  IF text = << >> THEN << >>
  ELSE (CASE text[1] = "\"" -> << "\\", "\"" >>
          [] text[1] = "\\" -> << "\\", "\\" >>
          [] text[1] = "\n" -> << "\\", "n" >>
          [] OTHER -> << text[1] >>) \o json_escape(Tail(text))

json_string(text) == << "\"" >> \o json_escape(text) \o << "\"" >>

\* the members of the object from field n on, separated by ", "
RECURSIVE json_members(_, _)
json_members(txn, n) ==
  IF n > Len(Fields) THEN << >>
  ELSE (IF n = 1 THEN << >> ELSE << ",", " " >>)
       \o json_string(FieldName[Fields[n]]) \o << ":", " " >> \o json_string(txn[Fields[n]])
       \o json_members(txn, n + 1)

\* CanonicalTransaction.to_json: json.dumps(asdict(self), ensure_ascii=False)
to_json(txn) == << "{" >> \o json_members(txn, 1) \o << "}" >>

\* json.loads raised, or cls(**d) did
Raised == [ok |-> FALSE]

\* the position of the first character at or after i that is not JSON
\* whitespace
RECURSIVE json_skip(_, _)
json_skip(text, i) ==
  IF i <= Len(text) /\ IsSpace(text[i]) THEN json_skip(text, i + 1) ELSE i

\* the scanner of a JSON string, past its opening quote: the str it stands
\* for and the position after its closing quote.  Of the escapes only those
\* of characters of Alphabet are known; a raw control character is refused.
RECURSIVE json_scan(_, _, _)
json_scan(text, i, acc) ==
  IF i > Len(text) THEN Raised
  ELSE IF text[i] = "\"" THEN [ok |-> TRUE, value |-> acc, next |-> i + 1]
  ELSE IF text[i] = "\n" THEN Raised
  ELSE IF text[i] = "\\"
       THEN IF i + 1 > Len(text) THEN Raised
            ELSE IF text[i + 1] \in {"\"", "\\", "/"}
                 THEN json_scan(text, i + 2, Append(acc, text[i + 1]))
            ELSE IF text[i + 1] = "n" THEN json_scan(text, i + 2, Append(acc, "\n"))
            ELSE Raised
  ELSE json_scan(text, i + 1, Append(acc, text[i]))

\* the members of an object whose values are strings, from position i (at
\* the opening quote of a key) on: the pairs read, in order
RECURSIVE json_pairs(_, _, _)
json_pairs(text, i, acc) ==
  IF i > Len(text) \/ text[i] # "\"" THEN Raised
  ELSE LET k == json_scan(text, i + 1, << >>)
       IN  IF ~k.ok THEN Raised
           ELSE LET c == json_skip(text, k.next)
                IN  IF c > Len(text) \/ text[c] # ":" THEN Raised
                    ELSE LET q == json_skip(text, c + 1)
                         IN  IF q > Len(text) \/ text[q] # "\"" THEN Raised
                             ELSE LET v == json_scan(text, q + 1, << >>)
                                  IN  IF ~v.ok THEN Raised
                                      ELSE LET e    == json_skip(text, v.next)
                                               more == Append(acc, << k.value, v.value >>)
                                           IN  IF e > Len(text) THEN Raised
                                               ELSE IF text[e] = "}"
                                                    THEN IF json_skip(text, e + 1) > Len(text)
                                                         THEN [ok |-> TRUE, pairs |-> more]
                                                         ELSE Raised
                                               ELSE IF text[e] = ","
                                                    THEN json_pairs(text, json_skip(text, e + 1),
                                                                    more)
                                               ELSE Raised

\* json.loads(line), for an object of string members
json_loads(line) ==
  LET b == json_skip(line, 1)
  IN  IF b > Len(line) \/ line[b] # "{" THEN Raised
      ELSE json_pairs(line, json_skip(line, b + 1), << >>)

\* the value a dict built from the pairs holds for a key: the last one given
dict_get(pairs, key) ==
  pairs[CHOOSE n \in 1..Len(pairs) :
          pairs[n][1] = key /\ \A m \in (n + 1)..Len(pairs) : pairs[m][1] # key][2]

\* CanonicalTransaction.from_json: cls(**json.loads(line)); cls raises a
\* TypeError unless the keys are exactly the fields
from_json(line) ==
  LET d == json_loads(line)
  IN  IF ~d.ok THEN Raised
      ELSE IF {d.pairs[n][1] : n \in 1..Len(d.pairs)} # {FieldName[f] : f \in Range(Fields)}
           THEN Raised
      ELSE [ok |-> TRUE,
            txn |-> [f \in Range(Fields) |-> dict_get(d.pairs, FieldName[f])]]

(***************************************************************************)
(* CSV normalizer (lib/csv_normalizer.py)                                  *)
(***************************************************************************)

\* str(n) of a natural number
RECURSIVE ToStr(_)
ToStr(n) ==
  IF n < 10 THEN << Alphabet[Ord("0") + n] >>
  ELSE ToStr(n \div 10) \o << Alphabet[Ord("0") + (n % 10)] >>

\* datetime.strptime(s, "%Y-%m-%d").strftime("%Y-%m-%d"), for years of four
\* digits
StrftimeDate(s) ==
  LET dt == SplitRest(SubSeq(s, 6, Len(s)), "-")
      dd == ToStr(DayVal(dt))
  IN  StrftimeYearMonth(s) \o << "-" >> \o (IF Len(dd) = 1 THEN << "0" >> \o dd ELSE dd)

\* float(text) raised ValueError
NotFloat == [ok |-> FALSE]

\* float(text), for texts without exponent or digit separator and with at
\* most two decimals: the sign, and the magnitude in hundredths or as the
\* name of a special value
float(text) ==
  LET t      == Strip(text)
      signed == t # << >> /\ t[1] \in {"+", "-"}
      neg    == t # << >> /\ t[1] = "-"
      body   == IF signed THEN Tail(t) ELSE t
      whole  == SplitHead(body, ".")
      frac   == SplitRest(body, ".")
  IN  IF LowerStr(body) = << "n", "a", "n" >>
      THEN [ok |-> TRUE, neg |-> neg, special |-> "nan", hundredths |-> 0]
      ELSE IF LowerStr(body) \in {<< "i", "n", "f" >>, << "i", "n", "f", "i", "n", "i", "t", "y" >>}
      THEN [ok |-> TRUE, neg |-> neg, special |-> "inf", hundredths |-> 0]
      ELSE IF /\ AllDigits(whole) /\ AllDigits(frac) /\ Len(whole) + Len(frac) > 0
      THEN [ok |-> TRUE, neg |-> neg, special |-> "no",
            hundredths |-> 100 * ToInt(whole)
                           + ToInt(SubSeq(frac \o << "0", "0" >>, 1, 2))]
      ELSE NotFloat

\* -amount
negate(amount) == [amount EXCEPT !.neg = ~@]

\* f"{amount:.2f}"
format_2f(amount) ==
  IF amount.special = "nan" THEN << "n", "a", "n" >>
  ELSE (IF amount.neg THEN << "-" >> ELSE << >>)
       \o (IF amount.special = "inf" THEN << "i", "n", "f" >>
            ELSE LET cents == ToStr(amount.hundredths % 100)
                 IN  ToStr(amount.hundredths \div 100) \o << "." >>
                     \o (IF Len(cents) = 1 THEN << "0" >> \o cents ELSE cents))

\* the header of the file and the columns the profile names: date, amount
\* and description are columns of the file, memo is a column it lacks, and
\* the profile names no reference column
ColDate == << "D" >>
ColAmount == << "A" >>
ColDescription == << "P" >>
ColMemo == << "M" >>

Header == << ColDate, ColAmount, ColDescription >>

\* a value a row holds, or the None csv.DictReader gives a header column
\* the row is too short for (restval)
Value(text) == [none |-> FALSE, text |-> text]

NoValue == [none |-> TRUE, text |-> << >>]

\* row.get(column, default) on the dict csv.DictReader makes of a row's
\* fields
row_get(fields, column, default) ==
  IF \E n \in 1..Len(Header) : Header[n] = column
  THEN LET n == CHOOSE m \in 1..Len(Header) : Header[m] = column
       IN  IF n <= Len(fields) THEN Value(fields[n]) ELSE NoValue
  ELSE Value(default)

\* the body of the loop over the rows: the row raises (.strip() of None is
\* an AttributeError), is skipped, or gives a transaction
normalize_row(fields, profile) ==
  LET date      == row_get(fields, profile.columns.date, << >>)
      raw       == row_get(fields, profile.columns.amount, << "0" >>)
      descr     == row_get(fields, profile.columns.description, << >>)
      memo      == row_get(fields, profile.columns.memo, << >>)
      reference == row_get(fields, profile.columns.reference, << >>)
      amount    == float(RemoveAll(Strip(raw.text), << "," >>))
  IN  IF date.none THEN [kind |-> "raised"]
      ELSE IF Strip(date.text) = << >> THEN [kind |-> "skipped"]
      ELSE IF ~StrptimeOk(Strip(date.text)) THEN [kind |-> "skipped"]
      ELSE IF raw.none THEN [kind |-> "raised"]
      ELSE IF ~amount.ok THEN [kind |-> "skipped"]
      ELSE IF descr.none \/ memo.none \/ reference.none THEN [kind |-> "raised"]
      ELSE [kind |-> "txn",
            txn |-> CanonicalTransaction(
                      StrftimeDate(Strip(date.text)),
                      format_2f(IF profile.amount_invert THEN negate(amount) ELSE amount),
                      Strip(descr.text), Strip(memo.text), profile.default_account,
                      Strip(reference.text), profile.institution)]

\* normalize_csv on the rows csv.DictReader yields (it passes over the rows
\* without any field): the transactions, or the exception raised
RECURSIVE normalize_rows(_, _, _)
normalize_rows(rows, profile, transactions) ==
  IF rows = << >> THEN [raised |-> FALSE, transactions |-> transactions]
  ELSE IF Head(rows) = << >> THEN normalize_rows(Tail(rows), profile, transactions)
  ELSE LET r == normalize_row(Head(rows), profile)
       IN  IF r.kind = "raised" THEN [raised |-> TRUE, transactions |-> << >>]
           ELSE normalize_rows(Tail(rows), profile,
                               IF r.kind = "txn" THEN Append(transactions, r.txn)
                               ELSE transactions)

normalize_csv(rows, profile) == normalize_rows(rows, profile, << >>)

\* the data rows of a file, as fields: well-formed ones, ones with an empty
\* or impossible date, with an empty or unparsable amount, with fewer fields
\* than the header, and a blank line
GoodRows ==
  {<< << "2", "0", "2", "6", "-", "0", "2", "-", "1", "5" >>, << "-", "4", "2", ".", "5", "0" >>, << "a" >> >>,
   << << " ", "2", "0", "2", "6", "-", "3", "-", "1" >>, << "1", ",", "2", "3", "4", ".", "5", " " >>, << " ", "b", " " >> >>,
   << << "2", "0", "2", "6", "-", "0", "2", "-", "1", "6" >>, << "0" >>, << "c" >>, << "x" >> >>}

BadRows ==
  {<< << >>, << "4", ".", "0", "0" >>, << "a" >> >>,
   << << "2", "0", "2", "6", "-", "0", "2", "-", "3", "0" >>, << "4", ".", "0", "0" >>, << "a" >> >>,
   << << "2", "0", "2", "6", "-", "0", "2", "-", "1", "5" >>, << >>, << "a" >> >>,
   << << "2", "0", "2", "6", "-", "0", "2", "-", "1", "5" >>, << "x" >>, << "a" >> >>,
   << << "2", "0", "2", "6", "-", "0", "2", "-", "1", "5" >> >>,
   << << "2", "0", "2", "6", "-", "0", "2", "-", "1", "5" >>, << "4", ".", "0", "0" >> >>,
   << >>}

CsvRows == GoodRows \cup BadRows

\* profiles whose date_format is %Y-%m-%d, with and without amount_invert
Profiles ==
  {[institution |-> Chase, default_account |-> AcctChase, amount_invert |-> inv,
    columns |-> [date |-> ColDate, amount |-> ColAmount, description |-> ColDescription,
                 memo |-> ColMemo, reference |-> << >>]] : inv \in BOOLEAN}

\* the canonical transactions of the well-formed rows
CsvCanonicals == {normalize_row(fields, profile).txn : fields \in GoodRows, profile \in Profiles}

(***************************************************************************)
(* SimpleFIN source (lib/simplefin_client.py, bin/ingest.py)               *)
(***************************************************************************)

SecondsPerDay == 86400

\* datetime.fromtimestamp(ts, tz=timezone.utc).strftime("%Y-%m-%d"), for
\* ts >= 0: the civil date of the day ts falls on
date_of_timestamp(ts) ==
  LET z   == ts \div SecondsPerDay + 719468
      era == z \div 146097
      doe == z - era * 146097
      yoe == (doe - doe \div 1460 + doe \div 36524 - doe \div 146096) \div 365
      doy == doe - (365 * yoe + yoe \div 4 - yoe \div 100)
      mp  == (5 * doy + 2) \div 153
      d   == doy - (153 * mp + 2) \div 5 + 1
      m   == IF mp < 10 THEN mp + 3 ELSE mp - 9
      y   == yoe + era * 400 + (IF m <= 2 THEN 1 ELSE 0)
      pad(t) == IF Len(t) = 1 THEN << "0" >> \o t ELSE t
  IN  ToStr(y) \o << "-" >> \o pad(ToStr(m)) \o << "-" >> \o pad(ToStr(d))

\* datetime.now(timezone.utc).strftime("%Y-%m-%d") on the day of a single run
UtcToday == << "2", "0", "2", "6", "-", "1", "1", "-", "0", "2" >>

\* SimpleFINTransaction; a transacted_at of None is kept as 0, which
\* `self.transacted_at or self.posted` treats alike
SimpleFINTransaction(id, posted, amount, description, pending, transacted_at) ==
  [id |-> id, posted |-> posted, amount |-> amount, description |-> description,
   pending |-> pending, transacted_at |-> transacted_at]

\* SimpleFINTransaction.date, read on the day `today`: what
\* datetime.now(timezone.utc).strftime("%Y-%m-%d") returns
txn_date(txn, today) ==
  LET ts == IF txn.transacted_at # 0 THEN txn.transacted_at ELSE txn.posted
  IN  IF ts = 0 THEN today ELSE date_of_timestamp(ts)

\* the known domains and their profile names, in the order of the dict
Mappings ==
  << << << "f", "i", "r", "s", "t", "t", "e", "c", "h", "f", "e", "d", ".", "c", "o", "m" >>,
        << "f", "i", "r", "s", "t", "t", "e", "c", "h" >> >>,
     << << "c", "h", "a", "s", "e", ".", "c", "o", "m" >>,
        << "c", "h", "a", "s", "e" >> >>,
     << << "a", "m", "e", "r", "i", "c", "a", "n", "e", "x", "p", "r", "e", "s", "s", ".", "c", "o", "m" >>,
        << "a", "m", "e", "x" >> >>,
     << << "b", "a", "n", "k", "o", "f", "a", "m", "e", "r", "i", "c", "a", ".", "c", "o", "m" >>,
        << "b", "o", "f", "a" >> >>,
     << << "w", "e", "l", "l", "s", "f", "a", "r", "g", "o", ".", "c", "o", "m" >>,
        << "w", "e", "l", "l", "s" >> >>,
     << << "c", "a", "p", "i", "t", "a", "l", "o", "n", "e", ".", "c", "o", "m" >>,
        << "c", "a", "p", "i", "t", "a", "l", "_", "o", "n", "e" >> >>,
     << << "c", "i", "t", "i", "b", "a", "n", "k", ".", "c", "o", "m" >>,
        << "c", "i", "t", "i" >> >>,
     << << "d", "i", "s", "c", "o", "v", "e", "r", ".", "c", "o", "m" >>,
        << "d", "i", "s", "c", "o", "v", "e", "r" >> >> >>

\* SimpleFINAccount.institution
account_institution(org_domain) ==
  LET domain == LowerStr(org_domain)
      hits   == {n \in 1..Len(Mappings) : Contains(domain, Mappings[n][1])}
  IN  IF hits # {}
      THEN Mappings[CHOOSE n \in hits : \A m \in hits : n <= m][2]
      ELSE SplitHead(domain, ".")

\* _INSTITUTION_DISPLAY
InstitutionDisplay ==
  << << << "f", "i", "r", "s", "t", "t", "e", "c", "h" >>,
        << "F", "i", "r", "s", "t", "T", "e", "c", "h" >> >>,
     << << "c", "i", "t", "i" >>,
        << "C", "i", "t", "i" >> >>,
     << << "c", "h", "a", "s", "e" >>,
        << "C", "h", "a", "s", "e" >> >>,
     << << "a", "m", "e", "x" >>,
        << "A", "m", "e", "x" >> >>,
     << << "d", "i", "s", "c", "o", "v", "e", "r" >>,
        << "D", "i", "s", "c", "o", "v", "e", "r" >> >>,
     << << "w", "e", "l", "l", "s", "f", "a", "r", "g", "o" >>,
        << "W", "e", "l", "l", "s", "F", "a", "r", "g", "o" >> >> >>

\* str.upper(), one character
Upper(c) ==
  IF Ord(c) >= Ord("a") /\ Ord(c) <= Ord("z") THEN Alphabet[Ord(c) - Ord("a") + Ord("A")] ELSE c

IsLetter(c) == Lower(c) # c \/ Upper(c) # c

\* str.title()
title(text) ==
  [n \in 1..Len(text) |->
     IF n > 1 /\ IsLetter(text[n - 1]) THEN Lower(text[n]) ELSE Upper(text[n])]

\* _map_account
map_account(account_name, inst) ==
  LET known      == {n \in 1..Len(InstitutionDisplay) : InstitutionDisplay[n][1] = inst}
      display    == IF known # {} THEN InstitutionDisplay[CHOOSE n \in known : TRUE][2]
                    ELSE title(inst)
      name_lower == LowerStr(account_name)
      any(kws)   == \E kw \in kws : Contains(name_lower, kw)
  IN  IF any({<< "c", "h", "e", "c", "k", "i", "n", "g" >>, << "s", "h", "a", "r", "e", " ", "d", "r", "a", "f", "t" >>})
      THEN << "A", "s", "s", "e", "t", "s", ":", "C", "h", "e", "c", "k", "i", "n", "g", ":" >> \o display
      ELSE IF any({<< "s", "a", "v", "i", "n", "g" >>, << "m", "o", "n", "e", "y", " ", "m", "a", "r", "k", "e", "t" >>})
      THEN << "A", "s", "s", "e", "t", "s", ":", "S", "a", "v", "i", "n", "g", "s", ":" >> \o display
      ELSE IF any({<< "c", "r", "e", "d", "i", "t" >>, << "c", "a", "r", "d" >>})
      THEN << "L", "i", "a", "b", "i", "l", "i", "t", "i", "e", "s", ":", "C", "r", "e", "d", "i", "t", "C", "a", "r", "d", ":" >> \o display
      ELSE IF any({<< "l", "o", "a", "n" >>, << "m", "o", "r", "t", "g", "a", "g", "e" >>, << "a", "u", "t", "o" >>})
      THEN << "L", "i", "a", "b", "i", "l", "i", "t", "i", "e", "s", ":", "L", "o", "a", "n", ":" >> \o display
      ELSE << "A", "s", "s", "e", "t", "s", ":", "O", "t", "h", "e", "r", ":" >> \o display

\* chunk_size = 60, in days
chunk_size == 60

\* a window start that is not held at start_date
window_start_unclamped(start_date, window_end) == window_end - chunk_size

\* max(start_date, window_end - timedelta(days=chunk_size)); instants are
\* counted in days from an origin, end_date and all that is computed from it
\* sharing their time of day
window_start(start_date, window_end) ==
  IF start_date >= window_end - chunk_size THEN start_date ELSE window_end - chunk_size

\* the while loop over window_end, as the windows it appends
RECURSIVE build_windows(_, _, _)
build_windows(windows, window_end, start_date) ==
  IF window_end > start_date
  THEN build_windows(Append(windows, << window_start(start_date, window_end), window_end >>),
                     window_start(start_date, window_end), start_date)
  ELSE windows

\* the windows of ingest_simplefin(project_root, days) run at end_date
chunk_windows(end_date, days) == build_windows(<< >>, end_date, end_date - days)


\* the transactions of acct the merged account lacks, by id, appended
RECURSIVE merge_transactions(_, _)
merge_transactions(existing, incoming) ==
  IF incoming = << >> THEN existing
  ELSE merge_transactions(
         IF \E n \in 1..Len(existing) : existing[n].id = Head(incoming).id
         THEN existing ELSE Append(existing, Head(incoming)),
         Tail(incoming))

\* accounts_by_id after the accounts of one more window
RECURSIVE merge_accounts(_, _)
merge_accounts(accounts, chunk_accounts) ==
  IF chunk_accounts = << >> THEN accounts
  ELSE LET acct == Head(chunk_accounts)
       IN  merge_accounts(
             IF \E n \in 1..Len(accounts) : accounts[n].id = acct.id
             THEN [n \in 1..Len(accounts) |->
                     IF accounts[n].id = acct.id
                     THEN [accounts[n] EXCEPT
                             !.transactions = merge_transactions(@, acct.transactions)]
                     ELSE accounts[n]]
             ELSE Append(accounts, acct),
             Tail(chunk_accounts))

\* accounts_by_id after every window
RECURSIVE merge_windows(_, _)
merge_windows(accounts, responses) ==
  IF responses = << >> THEN accounts
  ELSE merge_windows(merge_accounts(accounts, Head(responses)), Tail(responses))

\* a loop that skips no transaction
keep_all(txn) == TRUE

\* `if txn.pending: continue`
keep(txn) == ~txn.pending

\* the CanonicalTransaction of a transaction of an account
canonical(acct, txn, today) ==
  CanonicalTransaction(txn_date(txn, today), txn.amount, txn.description, << >>,
                       map_account(acct.name, account_institution(acct.org_domain)), txn.id,
                       account_institution(acct.org_domain))

\* the canonical transactions of the accounts, account after account
RECURSIVE canonical_all(_, _)
canonical_all(accounts, today) ==
  IF accounts = << >> THEN << >>
  ELSE LET acct == Head(accounts)
           kept == SelectSeq(acct.transactions, keep)
       IN  [n \in 1..Len(kept) |-> canonical(acct, kept[n], today)]
             \o canonical_all(Tail(accounts), today)

\* ingest_simplefin, given what the API answers for each window
ingest_simplefin(responses, today) == canonical_all(merge_windows(<< >>, responses), today)

\* a settled purchase and the same transaction while pending, a refund
\* without a timestamp, a purchase with a transacted_at
ApiTxns ==
  {SimpleFINTransaction(<< "1" >>, 1771113600, << "-", "4", ".", "0", "0" >>, << "a" >>, FALSE, 0),
   SimpleFINTransaction(<< "1" >>, 1771113600, << "-", "4", ".", "0", "0" >>, << "a" >>, TRUE, 0),
   SimpleFINTransaction(<< "2" >>, 0, << "2", ".", "5", "0" >>, << "b" >>, FALSE, 0),
   SimpleFINTransaction(<< "3" >>, 1771113600, << "-", "1", ".", "0", "0" >>, << "c" >>, FALSE, 951782400)}

\* the account the API reports, with the fields ingest_simplefin reads
ApiAccount(transactions) ==
  [id |-> << "A" >>, name |-> << "C", "r", "e", "d", "i", "t", " ", "C", "a", "r", "d" >>, org_domain |-> << "c", "h", "a", "s", "e", ".", "c", "o", "m" >>,
   transactions |-> transactions]

\* the canonical transactions the account's transactions would give
ApiCanonicals == {canonical(ApiAccount(<< >>), txn, UtcToday) : txn \in ApiTxns}

\* the latest reading of the clock
MaxClock == 2

\* datetime.now(timezone.utc).strftime("%Y-%m-%d") when the clock reads
\* `clock` whole days after 2026-11-02, day 20759 of the epoch
utc_today(clock) == date_of_timestamp((20759 + clock) * SecondsPerDay)

\* the transactions the API reports as settled
SettledTxns == {txn \in ApiTxns : ~txn.pending}

\* their canonical transactions on each day of the clock
DayCanonicals ==
  {canonical(ApiAccount(<< >>), txn, utc_today(clock)) : txn \in SettledTxns, clock \in 0..MaxClock}

\* a February and a March transaction of the same source
TxnFeb ==
  CanonicalTransaction(<< "2", "0", "2", "6", "-", "0", "2", "-", "1", "5" >>,
                       << "4", ".", "0", "0" >>, << "a" >>, << >>, AcctChase, << >>, Chase)
TxnMar ==
  CanonicalTransaction(<< "2", "0", "2", "6", "-", "0", "3", "-", "0", "1" >>,
                       << "2", ".", "5", "0" >>, << "b" >>, << >>, AcctChase, << >>, Chase)
\* the same economic event as TxnFeb: payee and memo differ only in what the
\* fingerprint ignores
TxnFebAgain ==
  CanonicalTransaction(<< "2", "0", "2", "6", "-", "0", "2", "-", "1", "5" >>,
                       << "4", ".", "0", "0" >>, << "A", "!" >>, << "m" >>, AcctChase, << >>,
                       Chase)
\* dates strptime rejects (30 February, 31 April) although they look like dates
TxnFeb30 ==
  CanonicalTransaction(<< "2", "0", "2", "6", "-", "0", "2", "-", "3", "0" >>,
                       << "1", ".", "0", "0" >>, << "c" >>, << >>, AcctChase, << >>, Chase)
TxnApr31 ==
  CanonicalTransaction(<< "2", "0", "2", "6", "-", "0", "4", "-", "3", "1" >>,
                       << "1", ".", "0", "0" >>, << "d" >>, << >>, AcctChase, << >>, Chase)
\* a date that is no date at all
TxnNoDate ==
  CanonicalTransaction(<< "n", "/", "a" >>,
                       << "3", ".", "0", "0" >>, << "e" >>, << >>, AcctAmex, << >>, Amex)

\* another transaction of the month and source of TxnFeb
TxnFebLater ==
  CanonicalTransaction(<< "2", "0", "2", "6", "-", "0", "2", "-", "1", "6" >>,
                       << "9", ".", "0", "0" >>, << "h" >>, << >>, AcctChase, << >>, Chase)

\* the same economic event as TxnMar, with a payee no rule cleans
TxnMarAgain ==
  CanonicalTransaction(<< "2", "0", "2", "6", "-", "0", "3", "-", "0", "1" >>,
                       << "2", ".", "5", "0" >>, << "b", "!" >>, << "m" >>, AcctChase, << >>,
                       Chase)

\* a payee of two lines, as a quoted CSV field or an API description may hold,
\* the second of which begins like an entry of May
TxnTwoLines ==
  CanonicalTransaction(<< "2", "0", "2", "6", "-", "0", "2", "-", "1", "5" >>,
                       << "7", ".", "0", "0" >>,
                       << "x", "\n", "2", "0", "2", "6", "-", "0", "5", "-", "0", "1", " ", "y" >>,
                       << >>, AcctChase, << >>, Chase)


Txns == {TxnFeb, TxnMar, TxnFebAgain, TxnFeb30, TxnApr31, TxnNoDate}

\* institution tags: the one SimpleFINAccount.institution gives capitalone.com,
\* and the first label of a domain it does not know (capital.com)
CapitalOne == << "c", "a", "p", "i", "t", "a", "l", "_", "o", "n", "e" >>
Capital == << "c", "a", "p", "i", "t", "a", "l" >>
AcctCapitalOne == << "l", ":", "o" >>
AcctCapital == << "l", ":", "p" >>

TxnCapitalOne ==
  CanonicalTransaction(<< "2", "0", "2", "6", "-", "0", "2", "-", "1", "5" >>,
                       << "5", ".", "0", "0" >>, << "f" >>, << >>, AcctCapitalOne, << >>,
                       CapitalOne)
TxnCapital ==
  CanonicalTransaction(<< "2", "0", "2", "6", "-", "0", "2", "-", "1", "6" >>,
                       << "6", ".", "0", "0" >>, << "g" >>, << >>, AcctCapital, << >>,
                       Capital)

\* the transactions of the accounts of several institutions
SourceTxns == {TxnFeb, TxnCapitalOne, TxnCapital}

AllTxns ==
  Txns \cup SourceTxns \cup CsvCanonicals \cup ApiCanonicals \cup DayCanonicals
    \cup {TxnFebLater, TxnMarAgain, TxnTwoLines}

\* the longest batch one ingestion run is given
MaxBatch == 2

RECURSIVE SeqsUpTo(_, _)
SeqsUpTo(S, n) ==
  IF n = 0 THEN {<< >>}
  ELSE LET shorter == SeqsUpTo(S, n - 1)
       IN  shorter \cup {Append(q, x) : q \in shorter, x \in S}

\* the batches of canonical transactions an ingestion run may be given
Batches == SeqsUpTo(Txns, MaxBatch) \ {<< >>}

\* the fingerprint write_staging_journals computes for a transaction
FingerprintOf ==
  [txn \in AllTxns |-> fingerprint(txn.account, txn.date, txn.amount, txn.payee, txn.source_id)]

txn_fingerprint(txn) == FingerprintOf[txn]

(***************************************************************************)
(* StagingWriter, pure parts (lib/journal_writer.py)                       *)
(***************************************************************************)

FpTag ==
  << " ", " ", ";", " ", "f", "i", "n", "g", "e", "r", "p", "r", "i", "n", "t", ":" >>
Indent == << " ", " ", " ", " " >>
JournalExt == << ".", "j", "o", "u", "r", "n", "a", "l" >>

\* the text of one ledger entry
format_journal_entry(date, payee, expense_account, source_account, amount, fp) ==
  date \o << " " >> \o payee \o FpTag \o fp \o << "\n" >>
  \o Indent \o expense_account \o Indent \o << "$" >> \o amount \o << "\n" >>
  \o Indent \o source_account \o << "\n" >>

\* A file of entries is kept as the sequence of its entries; an entry is the
\* record of the arguments format_journal_entry was given, and EntryText is
\* what the file holds for it (the entry followed by a blank line).
EntryOf ==
  [txn \in AllTxns |->
     [date |-> txn.date, payee |-> apply(txn.payee)[1],
      expense_account |-> apply(txn.payee)[2], source_account |-> txn.account,
      amount |-> txn.amount, fp |-> txn_fingerprint(txn)]]

Entry(txn) == EntryOf[txn]

EntryText(e) ==
  format_journal_entry(e.date, e.payee, e.expense_account, e.source_account, e.amount, e.fp)
  \o << "\n" >>

\* f"{txn.institution}_{month_key}"
FileKeyOf == [txn \in AllTxns |-> txn.institution \o << "_" >> \o month_key(txn.date)]

file_key(txn) == FileKeyOf[txn]

staging_file(key) == key \o JournalExt

(***************************************************************************)
(* PromotionEngine, pure parts (bin/post.py)                               *)
(***************************************************************************)

\* the months the lines of one entry's text yield
EntryMonths ==
  [e \in {Entry(txn) : txn \in AllTxns} |->
     {DateLineMonth(l) : l \in {x \in Range(Lines(EntryText(e))) : DateLineMatch(x)}}]

\* the months the lines of a file yield (no line spans two entries)
extract_months_from_journal(content) == UNION {EntryMonths[content[n]] : n \in 1..Len(content)}

get_institution_from_filename(filename) ==
  IF FirstIndex(filename, "_") # 0 THEN SplitHead(filename, "_")
  ELSE RemoveAll(filename, JournalExt)

\* postings/<year>/<month>/<institution>.journal, as its path components
dest_dir(month) == << SplitHead(month, "-"), month >>

dest_file(institution, month) == Append(dest_dir(month), institution \o JournalExt)

\* dest_dir.mkdir(parents=True, exist_ok=True): the directory and its parents
mkdir_parents(ds, dir) == ds \cup {SubSeq(dir, 1, n) : n \in 0..Len(dir)}

\* Path < Path, by components
RECURSIVE PathLess(_, _)
PathLess(a, b) ==
  IF b = << >> THEN FALSE
  ELSE IF a = << >> THEN TRUE
  ELSE IF a[1] = b[1] THEN PathLess(Tail(a), Tail(b))
  ELSE StrLess(a[1], b[1])

RECURSIVE SortedPaths(_)
SortedPaths(S) ==
  IF S = {} THEN << >>
  ELSE LET m == CHOOSE x \in S : \A y \in S \ {x} : PathLess(x, y)
       IN  << m >> \o SortedPaths(S \ {m})

\* the content update_main_journal leaves in main.journal: the generated
\* header and one include line per posted file
update_main_journal(main, posted) ==
  IF DOMAIN posted = {} THEN main
  ELSE [header |-> "generated", includes |-> SortedPaths(DOMAIN posted)]

(***************************************************************************)
(* DedupStore (lib/state.py, SeenTransactions)                             *)
(***************************************************************************)

\* the seen_transactions table is a function: fingerprint (the primary key)
\* -> the row's source and posted_at
SeenRecord(source, posted_at) == [source |-> source, posted_at |-> posted_at]

\* a lookup that finds nothing
is_seen_never(table, fp) == FALSE


is_seen(table, fp) == fp \in DOMAIN table

\* a store that records nothing
mark_seen_dropped(table, fp, source, utcnow) == table

\* INSERT OR REPLACE: a later mark overwrites the row
mark_seen_replacing(table, fp, source, utcnow) ==
  [x \in DOMAIN table \cup {fp} |-> IF x = fp THEN SeenRecord(source, utcnow) ELSE table[x]]

\* the arguments swapped: the row is keyed by the source tag
mark_seen_by_source(table, fp, source, utcnow) ==
  IF source \in DOMAIN table THEN table
  ELSE [x \in DOMAIN table \cup {source} |->
          IF x = source THEN SeenRecord(fp, utcnow) ELSE table[x]]


\* INSERT OR IGNORE, committed at once; utcnow is what datetime.now(utc) reads
mark_seen(table, fp, source, utcnow) ==
  IF fp \in DOMAIN table THEN table
  ELSE [x \in DOMAIN table \cup {fp} |->
          IF x = fp THEN SeenRecord(source, utcnow) ELSE table[x]]

count(table) == Cardinality(DOMAIN table)

(***************************************************************************)
(* Files                                                                   *)
(***************************************************************************)

\* open(name, "w") and write: earlier content is lost
append_file_truncating(files, name, content) ==
  [x \in DOMAIN files \cup {name} |-> IF x = name THEN content ELSE files[x]]

\* open(name, "a") and write: the file is created if absent, earlier content
\* is kept
append_file(files, name, content) ==
  [x \in DOMAIN files \cup {name} |->
     IF x = name THEN (IF name \in DOMAIN files THEN files[name] ELSE << >>) \o content
     ELSE files[x]]

\* Path.unlink()
unlink(files, name) == [x \in DOMAIN files \ {name} |-> files[x]]

NoFiles == [x \in {} |-> << >>]

(***************************************************************************)
(* State                                                                   *)
(***************************************************************************)

vars ==
  << seen, staging_dir, staging, dirs, postings, main_journal, wpc, w, ret, ppc, p, echo,
     hist, runs, now, engine, rule_files, out, cli, imports >>

\* what the pipeline's commands leave alone: the clock is read, not set; the
\* rule files are read when the run starts and the rules are fixed meanwhile
aside == << now, engine, rule_files, out >>

\* what only bin/ingest main changes
command == << cli, imports >>

\* the ingestion runs that may be under way
Runs == {1, 2}

\* how many runs a behaviour may abort
MaxAborts == 1

\* how many runs a behaviour with aborts may begin
MaxRuns == 3

NoStats == [x \in {} |-> 0]

NoEcho == [status |-> "none", moves |-> << >>]

NoCounts == [x \in {} |-> 0]

WIdle ==
  [transactions |-> << >>, i |-> 0, fp |-> << >>, grouped |-> << >>, stats |-> NoStats,
   k |-> 0, j |-> 0]

PIdle ==
  [dry_run |-> FALSE, staged_files |-> << >>, s |-> 0, institution |-> << >>,
   months |-> << >>, m |-> 0, u |-> 0]

\* history: how an ingestion run ended, with its batch and the fingerprints
\* of the batch that were unseen when it began
NoRun == [kind |-> "none", batch |-> << >>, unseen0 |-> {}]

\* history of the ingestion run under way: how the run just before it ended
\* if that run had the same batch ("none" otherwise), the fingerprints that
\* were unseen when that run began, those unseen when this one began, and
\* the fingerprints of the store and the staging files when this one began
NoCur ==
  [repeats |-> "none", unseen_before |-> {}, unseen0 |-> {}, seen0 |-> {},
   staging0 |-> [x \in {} |-> << >>]]

\* no RuleEngine has been constructed
NoEngine == [loaded |-> FALSE, payee_rules |-> << >>, account_rules |-> << >>]

\* neither rule file exists
NoRuleFiles == [payees |-> NoFile, accounts |-> NoFile]

NoCall == [call |-> "none"]

\* no ingestion command is running and none has ended: no transactions, no
\* SeenTransactions connection, no outcome
CliIdle ==
  [pc |-> "idle", transactions |-> << >>, conn |-> "none", status |-> "none", fault |-> "none"]

\* nothing under import/raw and import/canonical, no import/state
NoImports == [raw |-> {}, canonical |-> << >>, state_dir |-> FALSE]

\* a fresh project, but for its rule files
InitState ==
  /\ seen = [x \in {} |-> << >>]
  /\ staging_dir = FALSE
  /\ staging = NoFiles
  /\ dirs = {}
  /\ postings = NoFiles
  /\ main_journal = [header |-> "initial", includes |-> << >>]
  /\ wpc = [r \in Runs |-> "idle"]
  /\ w = [r \in Runs |-> WIdle]
  /\ ret = NoStats
  /\ ppc = "idle"
  /\ p = PIdle
  /\ echo = NoEcho
  /\ hist = [prev |-> NoRun, cur |-> [r \in Runs |-> NoCur], moved |-> << >>,
             plan |-> NoCounts, recovering |-> FALSE, expected |-> NoCounts, aborts |-> 0,
             marked |-> {}, settled |-> {}, skipped |-> {}]
  /\ runs = 0
  /\ now = 0
  /\ engine = NoEngine
  /\ out = NoCall
  /\ cli = CliIdle
  /\ imports = NoImports

Init == InitState /\ rule_files = InstalledRuleFiles

\* nothing is running
Quiet == ppc = "idle" /\ \A r \in Runs : wpc[r] = "idle"

(***************************************************************************)
(* StagingWriter: write_staging_journals, run r (lib/journal_writer.py)    *)
(***************************************************************************)

batch_fingerprints(txns) == {txn_fingerprint(txns[n]) : n \in 1..Len(txns)}

\* grouped[file_key].append(entry), grouped being a dict in insertion order
group_append(grouped, key, entry) ==
  IF \E n \in 1..Len(grouped) : grouped[n].key = key
  THEN [n \in 1..Len(grouped) |->
          IF grouped[n].key = key
          THEN [grouped[n] EXCEPT !.entries = Append(@, entry)]
          ELSE grouped[n]]
  ELSE Append(grouped, [key |-> key, entries |-> << entry >>])

\* a count that stops at one: stats[institution] = 1
stats_set(stats, institution) ==
  [x \in DOMAIN stats \cup {institution} |-> IF x = institution THEN 1 ELSE stats[x]]

\* stats[institution] = stats.get(institution, 0) + 1
stats_add(stats, institution) ==
  [x \in DOMAIN stats \cup {institution} |->
     IF x = institution THEN (IF institution \in DOMAIN stats THEN stats[institution] ELSE 0) + 1
     ELSE stats[x]]

\* where the run stands once the loop over the transactions has dealt with
\* transaction i - 1
after_txn(wr) ==
  IF wr.i <= Len(wr.transactions) THEN "loop"
  ELSE IF wr.grouped = << >> THEN "return" ELSE "files"

\* the call: staging_dir.mkdir(parents=True, exist_ok=True)
write_call(r, txns) ==
  /\ wpc[r] = "idle"
  /\ staging_dir' = TRUE
  /\ w' = [w EXCEPT ![r] = [WIdle EXCEPT !.transactions = txns, !.i = 1, !.k = 1, !.j = 1]]
  /\ wpc' = [wpc EXCEPT ![r] = "loop"]
  /\ hist' = [hist EXCEPT
                !.cur[r] = IF hist.prev.batch = txns
                           THEN [repeats |-> hist.prev.kind,
                                 unseen_before |-> hist.prev.unseen0,
                                 unseen0 |-> batch_fingerprints(txns) \ DOMAIN seen,
                                 seen0 |-> DOMAIN seen,
                                 staging0 |-> staging]
                           ELSE [NoCur EXCEPT
                                   !.unseen0 = batch_fingerprints(txns) \ DOMAIN seen,
                                   !.seen0 = DOMAIN seen,
                                   !.staging0 = staging],
                !.prev = NoRun,
                !.recovering = FALSE,
                !.expected = NoCounts]
  /\ ret' = NoStats
  /\ echo' = NoEcho
  /\ UNCHANGED << aside, seen, staging, dirs, postings, main_journal, ppc, p >>

\* write_staging_journals called outside bin/ingest main
write_begin(r, txns) == write_call(r, txns) /\ UNCHANGED command

\* loop body, first half: fingerprint the transaction, skip it if seen
write_check(r) ==
  /\ wpc[r] = "loop"
  /\ LET txn == w[r].transactions[w[r].i]
         fp  == txn_fingerprint(txn)
     IN  IF is_seen(seen, fp)
         THEN LET wr == [w[r] EXCEPT !.i = @ + 1]
              IN  /\ w' = [w EXCEPT ![r] = wr]
                  /\ wpc' = [wpc EXCEPT ![r] = after_txn(wr)]
         ELSE /\ w' = [w EXCEPT ![r].fp = fp]
              /\ wpc' = [wpc EXCEPT ![r] = "mark"]
  /\ UNCHANGED << command, aside, seen, staging_dir, staging, dirs, postings, main_journal, ret, ppc, p,
                  echo, hist, runs >>

\* loop body, second half: render the entry, group it, mark the fingerprint
\* seen, count it
write_mark(r) ==
  /\ wpc[r] = "mark"
  /\ LET txn == w[r].transactions[w[r].i]
         wr  == [w[r] EXCEPT !.grouped = group_append(@, file_key(txn), Entry(txn)),
                             !.stats = stats_add(@, txn.institution),
                             !.fp = << >>,
                             !.i = @ + 1]
     IN  /\ seen' = mark_seen(seen, w[r].fp, txn.institution, now)
         /\ w' = [w EXCEPT ![r] = wr]
         /\ wpc' = [wpc EXCEPT ![r] = after_txn(wr)]
  /\ hist' = [hist EXCEPT !.marked = @ \cup {w[r].fp}]
  /\ UNCHANGED << command, aside, staging_dir, staging, dirs, postings, main_journal, ret, ppc, p, echo,
                  runs >>

\* writing the groups: entry j of group k is appended to its staging file
write_append(r) ==
  /\ wpc[r] = "files"
  /\ LET g    == w[r].grouped[w[r].k]
         last == w[r].j = Len(g.entries)
         wr   == IF last THEN [w[r] EXCEPT !.k = @ + 1, !.j = 1] ELSE [w[r] EXCEPT !.j = @ + 1]
     IN  /\ staging' = append_file(staging, staging_file(g.key), << g.entries[w[r].j] >>)
         /\ w' = [w EXCEPT ![r] = wr]
         /\ wpc' = [wpc EXCEPT ![r] = IF wr.k > Len(wr.grouped) THEN "return" ELSE "files"]
  /\ UNCHANGED << command, aside, seen, staging_dir, dirs, postings, main_journal, ret, ppc, p, echo, hist, runs >>

\* return dict(stats)
write_return(r) ==
  /\ wpc[r] = "return"
  /\ ret' = w[r].stats
  /\ w' = [w EXCEPT ![r] = WIdle]
  /\ wpc' = [wpc EXCEPT ![r] = "idle"]
  /\ hist' = [hist EXCEPT !.prev = [kind |-> "done", batch |-> w[r].transactions,
                                    unseen0 |-> hist.cur[r].unseen0],
                          !.cur[r] = NoCur]
  /\ UNCHANGED << command, aside, seen, staging_dir, staging, dirs, postings, main_journal, ppc, p, echo, runs >>

\* the run ends where it stands
write_stop(r) ==
  /\ wpc[r] # "idle"
  /\ hist.aborts < MaxAborts
  /\ w' = [w EXCEPT ![r] = WIdle]
  /\ wpc' = [wpc EXCEPT ![r] = "idle"]
  /\ hist' = [hist EXCEPT
                !.prev = [kind |-> "aborted", batch |-> w[r].transactions,
                          unseen0 |-> IF hist.cur[r].repeats = "aborted"
                                      THEN hist.cur[r].unseen_before
                                      ELSE hist.cur[r].unseen0],
                !.cur[r] = NoCur,
                !.aborts = @ + 1]
  /\ UNCHANGED << aside, seen, staging_dir, staging, dirs, postings, main_journal, ret, ppc, p,
                  echo, runs >>

\* the run is aborted where it stands
write_abort(r) == write_stop(r) /\ UNCHANGED command

(***************************************************************************)
(* A promotion run as a whole, for the properties: the moves of a run that *)
(* nothing interrupts, and the posted files it leaves                      *)
(***************************************************************************)

\* the moves (staged file, destination) of one staged file, months sorted
RECURSIVE FileMoves(_, _)
FileMoves(sf, months) ==
  IF months = << >> THEN << >>
  ELSE << << sf, dest_file(get_institution_from_filename(sf), months[1]) >> >>
       \o FileMoves(sf, Tail(months))

\* the moves of the staged files names, in order
RECURSIVE MovesOf(_, _)
MovesOf(files, names) ==
  IF names = << >> THEN << >>
  ELSE FileMoves(names[1], SortedStrings(extract_months_from_journal(files[names[1]])))
       \o MovesOf(files, Tail(names))

Moves(files) == MovesOf(files, SortedStrings(DOMAIN files))

RECURSIVE ApplyMoves(_, _, _)
ApplyMoves(files, posted, moves) ==
  IF moves = << >> THEN posted
  ELSE ApplyMoves(files, append_file(posted, moves[1][2], files[moves[1][1]]), Tail(moves))

Promoted(files, posted) == ApplyMoves(files, posted, Moves(files))

\* the fingerprints of the entries a set of files holds
FingerprintsIn(files) == UNION {{files[f][n].fp : n \in 1..Len(files[f])} : f \in DOMAIN files}

\* how many entries of a set of files carry fingerprint fp
FpCount(files, fp) ==
  Cardinality({<< f, n >> \in UNION {{f} \X (1..Len(files[f])) : f \in DOMAIN files} :
                 files[f][n].fp = fp})

PostedCounts(posted) == [fp \in FingerprintsIn(posted) |-> FpCount(posted, fp)]

(***************************************************************************)
(* PromotionEngine: main of bin/post.py                                    *)
(***************************************************************************)

\* only the directory is looked at
nothing_staged_dir_only(exists, files) == ~exists

\* not staging_dir.exists() or not list(staging_dir.glob("*.journal"))
nothing_staged(exists, files) == ~exists \/ DOMAIN files = {}

\* the loop over the staged files ends after its first file
after_file_first(pr) ==
  IF pr.s <= 1 THEN "scan"
  ELSE IF pr.dry_run THEN "idle" ELSE "remove"

\* where the run stands once staged file s - 1 has been dealt with
after_file(pr) ==
  IF pr.s <= Len(pr.staged_files) THEN "scan"
  ELSE IF pr.dry_run THEN "idle" ELSE "remove"

\* what is left of the locals, and what is reported, when the loop over the
\* staged files ends
leave_files(pr) ==
  IF after_file(pr) = "idle" THEN PIdle
  ELSE IF after_file(pr) = "remove" THEN [pr EXCEPT !.u = 1]
  ELSE pr

status_after_file(pr) == IF after_file(pr) = "idle" THEN "dry-run" ELSE "running"

\* the call, up to staged_files = sorted(staging_dir.glob("*.journal"))
post_begin(dry_run) ==
  /\ ppc = "idle"
  /\ IF nothing_staged(staging_dir, staging)
     THEN /\ echo' = [status |-> "nothing", moves |-> << >>]
          /\ UNCHANGED << ppc, p >>
     ELSE LET pr == [PIdle EXCEPT !.dry_run = dry_run,
                                  !.staged_files = SortedStrings(DOMAIN staging),
                                  !.s = 1]
          IN  /\ echo' = [status |-> status_after_file(pr), moves |-> << >>]
              /\ ppc' = after_file(pr)
              /\ p' = leave_files(pr)
  /\ hist' = [hist EXCEPT
                !.prev = NoRun,
                !.moved = << >>,
                !.plan = IF nothing_staged(staging_dir, staging) \/ dry_run THEN NoCounts
                         ELSE PostedCounts(Promoted(staging, postings))]
  /\ ret' = NoStats
  /\ UNCHANGED << command, aside, seen, staging_dir, staging, dirs, postings, main_journal, wpc, w >>

\* for sf in staged_files: institution and months of the file
post_scan ==
  /\ ppc = "scan"
  /\ LET sf     == p.staged_files[p.s]
         months == SortedStrings(extract_months_from_journal(staging[sf]))
         pr     == IF months = << >>
                   THEN [p EXCEPT !.s = @ + 1]
                   ELSE [p EXCEPT !.institution = get_institution_from_filename(sf),
                                  !.months = months, !.m = 1]
     IN  IF months = << >>
         THEN /\ ppc' = after_file(pr)
              /\ p' = leave_files(pr)
              /\ echo' = [echo EXCEPT !.status = status_after_file(pr)]
         ELSE /\ ppc' = "append"
              /\ p' = pr
              /\ echo' = echo
  /\ UNCHANGED << command, aside, seen, staging_dir, staging, dirs, postings, main_journal, wpc, w, ret,
                  hist, runs >>

\* the directory is made before dry_run is looked at
post_mkdir_always(dry_run, ds, month) == mkdir_parents(ds, dest_dir(month))

\* the directories that exist once the move to dest has been dealt with
post_mkdir(dry_run, ds, month) == IF dry_run THEN ds ELSE mkdir_parents(ds, dest_dir(month))

\* the destination is opened with "w"
post_write_truncating(dry_run, posted, dest, content) ==
  IF dry_run THEN posted
  ELSE [x \in DOMAIN posted \cup {dest} |-> IF x = dest THEN content ELSE posted[x]]

\* the posted files once the staged file's content has been moved to dest
post_write(dry_run, posted, dest, content) ==
  IF dry_run THEN posted ELSE append_file(posted, dest, content)

\* for month in sorted(months): report the move and, unless dry_run, append
\* the staged file's content to the destination
post_append ==
  /\ ppc = "append"
  /\ LET sf   == p.staged_files[p.s]
         mon  == p.months[p.m]
         dest == dest_file(p.institution, mon)
         pr   == IF p.m < Len(p.months)
                 THEN [p EXCEPT !.m = @ + 1]
                 ELSE [p EXCEPT !.s = @ + 1, !.institution = << >>, !.months = << >>,
                                !.m = 0]
         more == p.m < Len(p.months)
     IN  /\ dirs' = post_mkdir(p.dry_run, dirs, mon)
         /\ postings' = post_write(p.dry_run, postings, dest, staging[sf])
         /\ hist' = IF p.dry_run THEN hist
                    ELSE [hist EXCEPT !.moved = Append(@, << sf, dest >>)]
         /\ ppc' = IF more THEN "append" ELSE after_file(pr)
         /\ p' = IF more THEN pr ELSE leave_files(pr)
         /\ echo' = [status |-> IF more THEN "running" ELSE status_after_file(pr),
                     moves |-> Append(echo.moves, << sf, dest >>)]
  /\ UNCHANGED << command, aside, seen, staging_dir, staging, main_journal, wpc, w, ret, runs >>

\* for sf in staged_files: sf.unlink()
post_remove ==
  /\ ppc = "remove"
  /\ staging' = unlink(staging, p.staged_files[p.u])
  /\ IF p.u < Len(p.staged_files)
     THEN /\ p' = [p EXCEPT !.u = @ + 1]
          /\ ppc' = "remove"
     ELSE /\ p' = p
          /\ ppc' = "manifest"
  /\ UNCHANGED << command, aside, seen, staging_dir, dirs, postings, main_journal, wpc, w, ret, echo, hist, runs >>

\* update_main_journal(main_journal, postings_dir), and the run is done
post_manifest ==
  /\ ppc = "manifest"
  /\ main_journal' = update_main_journal(main_journal, postings)
  /\ ppc' = "idle"
  /\ p' = PIdle
  /\ echo' = [echo EXCEPT !.status = "done"]
  /\ hist' = [hist EXCEPT !.moved = << >>, !.plan = NoCounts, !.recovering = FALSE,
                          !.expected = NoCounts]
  /\ UNCHANGED << command, aside, seen, staging_dir, staging, dirs, postings, wpc, w, ret, runs >>

\* the run is aborted where it stands
post_abort ==
  /\ ppc # "idle"
  /\ hist.aborts < MaxAborts
  /\ ppc' = "idle"
  /\ p' = PIdle
  /\ echo' = [echo EXCEPT !.status = "aborted"]
  /\ hist' = [hist EXCEPT
                !.moved = << >>,
                !.plan = NoCounts,
                !.recovering = @ \/ ~p.dry_run,
                !.expected = IF p.dry_run \/ hist.recovering THEN @ ELSE hist.plan,
                !.aborts = @ + 1]
  /\ UNCHANGED << command, aside, seen, staging_dir, staging, dirs, postings, main_journal, wpc, w, ret, runs >>

(***************************************************************************)
(* The ingestion command: main of bin/ingest.py                            *)
(***************************************************************************)

\* how many ingestion commands a behaviour may run
MaxCommands == 2

\* the raw archive after shutil.copy2 under the name made of the profile and
\* the hash of the content, unless that file exists
archive(raw, profile, rows) == raw \cup {[profile |-> profile.institution, content |-> rows]}

\* write_canonical: a line per transaction, appended to the profile's JSONL
write_canonical(lines, transactions) ==
  lines \o [n \in 1..Len(transactions) |-> to_json(transactions[n])]

\* the raw file is archived before the profile is looked for
ingest_csv_archiving_first(imp, profile_exists, rows, profile) ==
  LET archived == [imp EXCEPT !.raw = archive(@, profile, rows)]
      result   == normalize_csv(rows, profile)
  IN  IF ~profile_exists
      THEN [status |-> "config_error", imports |-> archived, transactions |-> << >>]
      ELSE IF result.raised
      THEN [status |-> "raised", imports |-> archived, transactions |-> << >>]
      ELSE [status |-> "ok",
            imports |-> IF result.transactions = << >> THEN archived
                        ELSE [archived EXCEPT
                                !.canonical = write_canonical(@, result.transactions)],
            transactions |-> result.transactions]

\* ingest_csv: how it ends, what it leaves under import/ and what it returns
ingest_csv(imp, profile_exists, rows, profile) ==
  IF ~profile_exists
  THEN [status |-> "config_error", imports |-> imp, transactions |-> << >>]
  ELSE LET archived == [imp EXCEPT !.raw = archive(@, profile, rows)]
           result   == normalize_csv(rows, profile)
       IN  IF result.raised
           THEN [status |-> "raised", imports |-> archived, transactions |-> << >>]
           ELSE [status |-> "ok",
                 imports |-> IF result.transactions = << >> THEN archived
                             ELSE [archived EXCEPT
                                     !.canonical = write_canonical(@, result.transactions)],
                 transactions |-> result.transactions]

\* where main stands once the source has given its transactions
after_source(status, transactions) ==
  IF status # "ok" THEN [CliIdle EXCEPT !.status = status]
  ELSE IF transactions = << >> THEN [CliIdle EXCEPT !.status = "done"]
  ELSE [CliIdle EXCEPT !.pc = "store", !.transactions = transactions]

\* main, source csv: csv_file and profile_name tell whether --file and
\* --profile were given
main_csv(csv_file, profile_name, profile_exists, rows, profile) ==
  /\ Quiet
  /\ cli.pc = "idle"
  /\ runs < MaxCommands
  /\ runs' = runs + 1
  /\ IF ~csv_file \/ ~profile_name
     THEN /\ cli' = [CliIdle EXCEPT !.status = "config_error"]
          /\ UNCHANGED imports
     ELSE LET r == ingest_csv(imports, profile_exists, rows, profile)
          IN  /\ imports' = r.imports
              /\ cli' = after_source(r.status, r.transactions)
  /\ UNCHANGED << aside, seen, staging_dir, staging, dirs, postings, main_journal, wpc, w, ret,
                  ppc, p, echo, hist >>

\* history: the transactions a request retains, each with its account: of
\* the versions of a transaction the windows hold, the first
Retained(responses) ==
  LET held == UNION {{[window |-> n, at |-> k] :
                        k \in 1..Len(responses[n][1].transactions)} :
                       n \in 1..Len(responses)}
      txn_of(v) == responses[v.window][1].transactions[v.at]
      earlier(u, v) == u.window < v.window \/ (u.window = v.window /\ u.at < v.at)
  IN  {[acct |-> responses[v.window][1], txn |-> txn_of(v)] :
         v \in {v \in held : \A u \in held : earlier(u, v) => txn_of(u).id # txn_of(v).id}}

\* main, source simplefin: access_url tells whether SimpleFIN is configured
main_simplefin(access_url, responses) ==
  /\ Quiet
  /\ cli.pc = "idle"
  /\ runs < MaxCommands
  /\ runs' = runs + 1
  /\ cli' = IF ~access_url THEN [CliIdle EXCEPT !.status = "config_error"]
            ELSE after_source("ok", ingest_simplefin(responses, UtcToday))
  /\ hist' = IF ~access_url THEN hist
             ELSE [hist EXCEPT
                     !.settled = @ \cup {txn_fingerprint(canonical(v.acct, v.txn, UtcToday)) :
                                           v \in {v \in Retained(responses) : ~v.txn.pending}},
                     !.skipped = @ \cup {txn_fingerprint(canonical(v.acct, v.txn, UtcToday)) :
                                           v \in {v \in Retained(responses) : v.txn.pending}}]
  /\ UNCHANGED << imports, aside, seen, staging_dir, staging, dirs, postings, main_journal, wpc,
                  w, ret, ppc, p, echo >>

\* the store is opened although StateDB.__init__ failed
opened_anyway(fault) == TRUE

\* StateDB.__init__ raised nothing
opened(fault) == fault = "none"

\* rules = RuleEngine(...); with SeenTransactions(state_path) as seen:
\* write_staging_journals(transactions, rules, seen, staging_dir) is called.
\* fault is the step of StateDB.__init__ that fails, if one does: the mkdir
\* of import/state or the connect.
main_open_store(fault) ==
  /\ cli.pc = "store"
  /\ imports' = [imports EXCEPT !.state_dir = @ \/ fault # "mkdir"]
  /\ IF opened(fault)
     THEN /\ cli' = [cli EXCEPT !.pc = "writing", !.conn = "open", !.fault = fault]
          /\ write_call(1, cli.transactions)
     ELSE /\ cli' = [CliIdle EXCEPT !.status = "store_error", !.fault = fault]
          /\ UNCHANGED << aside, seen, staging_dir, staging, dirs, postings, main_journal, wpc,
                          w, ret, ppc, p, echo, hist >>
  /\ UNCHANGED runs

\* the with block is left and the connection stays as it is
close_skipped(conn) == conn

\* StateDB.__exit__: self.close()
close(conn) == "closed"

\* write_staging_journals has returned: the with block is left, the counts
\* are reported
main_close ==
  /\ cli.pc = "writing"
  /\ wpc[1] = "idle"
  /\ cli' = [CliIdle EXCEPT !.conn = close(cli.conn), !.status = "done"]
  /\ UNCHANGED << imports, aside, seen, staging_dir, staging, dirs, postings, main_journal, wpc,
                  w, ret, ppc, p, echo, hist, runs >>

\* write_staging_journals raises where it stands: the with block is left by
\* the exception, which ends the command
main_raise ==
  /\ cli.pc = "writing"
  /\ wpc[1] # "idle"
  /\ write_stop(1)
  /\ cli' = [CliIdle EXCEPT !.conn = close(cli.conn), !.status = "raised"]
  /\ UNCHANGED imports

(***************************************************************************)
(* Specifications                                                          *)
(***************************************************************************)

Ingest == \E txns \in Batches : Quiet /\ write_begin(1, txns) /\ UNCHANGED runs

WriteStep == write_check(1) \/ write_mark(1) \/ write_append(1) \/ write_return(1)

Post == \E dry_run \in BOOLEAN : Quiet /\ post_begin(dry_run) /\ UNCHANGED runs

PostStep == post_scan \/ post_append \/ post_remove \/ post_manifest

\* ingestion runs and promotions, one at a time, each run to its end
Next == Ingest \/ WriteStep \/ Post \/ PostStep

Spec == Init /\ [][Next]_vars

IngestCounted ==
  \E txns \in Batches : Quiet /\ runs < MaxRuns /\ write_begin(1, txns) /\ runs' = runs + 1

PostCounted ==
  \E dry_run \in BOOLEAN : Quiet /\ runs < MaxRuns /\ post_begin(dry_run) /\ runs' = runs + 1

Abort == write_abort(1) \/ post_abort

\* a bounded number of runs, one at a time, where a run may be aborted at any
\* point
NextCrash == IngestCounted \/ WriteStep \/ PostCounted \/ PostStep \/ Abort

SpecCrash == Init /\ [][NextCrash]_vars

(***************************************************************************)
(* The DedupStore called on its own (lib/state.py, SeenTransactions)       *)
(***************************************************************************)

\* the fingerprints and source tags the store's callers pass
StoreKeys == {txn_fingerprint(TxnFeb), txn_fingerprint(TxnMar), txn_fingerprint(TxnNoDate)}

Sources == {Chase, Amex}

\* time passes
tick ==
  /\ now < MaxClock
  /\ now' = now + 1
  /\ UNCHANGED << command, seen, staging_dir, staging, dirs, postings, main_journal, wpc, w, ret, ppc,
                  p, echo, hist, runs, engine, rule_files, out >>

\* a caller's seen.mark_seen(fp, source)
store_mark(fp, source) ==
  /\ seen' = mark_seen(seen, fp, source, now)
  /\ hist' = [hist EXCEPT !.marked = @ \cup {fp}]
  /\ out' = [call |-> "mark_seen", fp |-> fp, source |-> source]
  /\ UNCHANGED << command, staging_dir, staging, dirs, postings, main_journal, wpc, w, ret, ppc, p,
                  echo, runs, now, engine, rule_files >>

StoreMark == \E fp \in StoreKeys, source \in Sources : store_mark(fp, source)

NextStore == tick \/ StoreMark

SpecStore == Init /\ [][NextStore]_vars

(***************************************************************************)
(* Two ingestion runs over one batch at the same time                      *)
(***************************************************************************)

\* how many times a pair of runs is started
MaxRounds == 2

\* both runs are called with the batch; each creates the staging directory
\* and initialises its locals before either enters its loop
conc_begin(txns) ==
  /\ Quiet
  /\ runs < MaxRounds
  /\ runs' = runs + 1
  /\ staging_dir' = TRUE
  /\ w' = [r \in Runs |-> [WIdle EXCEPT !.transactions = txns, !.i = 1, !.k = 1, !.j = 1]]
  /\ wpc' = [r \in Runs |-> "loop"]
  /\ hist' = [hist EXCEPT
                !.cur = [r \in Runs |->
                           [NoCur EXCEPT !.unseen0 = batch_fingerprints(txns) \ DOMAIN seen,
                                         !.seen0 = DOMAIN seen,
                                         !.staging0 = staging]],
                !.prev = NoRun,
                !.recovering = FALSE,
                !.expected = NoCounts]
  /\ ret' = NoStats
  /\ echo' = NoEcho
  /\ UNCHANGED << command, aside, seen, staging, dirs, postings, main_journal, ppc, p >>

ConcBegin == \E txns \in Batches : conc_begin(txns)

\* one step of either run
ConcStep ==
  \E r \in Runs : write_check(r) \/ write_mark(r) \/ write_append(r) \/ write_return(r)

NextConc == ConcBegin \/ ConcStep

SpecConc == Init /\ [][NextConc]_vars

(***************************************************************************)
(* An ingestion run and a promotion at the same time: neither command      *)
(* takes a lock or looks for the other                                     *)
(***************************************************************************)

OverlapIngest ==
  \E txns \in Batches : runs < MaxRuns /\ write_begin(1, txns) /\ runs' = runs + 1

OverlapPost ==
  \E dry_run \in BOOLEAN : runs < MaxRuns /\ post_begin(dry_run) /\ runs' = runs + 1

NextOverlap == OverlapIngest \/ WriteStep \/ OverlapPost \/ PostStep

SpecOverlap == Init /\ [][NextOverlap]_vars

\* ingestion runs of transactions of one month and source, and promotions
\* that are no dry run, at the same time
InterleaveIngest ==
  \E txns \in SeqsUpTo({TxnFeb, TxnFebLater}, MaxBatch) \ {<< >>} :
    runs < MaxRuns /\ write_begin(1, txns) /\ runs' = runs + 1

InterleavePost == runs < MaxRuns /\ post_begin(FALSE) /\ runs' = runs + 1

NextInterleave == InterleaveIngest \/ WriteStep \/ InterleavePost \/ PostStep

SpecInterleave == Init /\ [][NextInterleave]_vars

(***************************************************************************)
(* The pipeline fed by the accounts of several institutions                *)
(***************************************************************************)

SourceBatches == SeqsUpTo(SourceTxns, MaxBatch) \ {<< >>}

IngestSources == \E txns \in SourceBatches : Quiet /\ write_begin(1, txns) /\ UNCHANGED runs

NextSources == IngestSources \/ WriteStep \/ Post \/ PostStep

SpecSources == Init /\ [][NextSources]_vars

\* the longest batch of an ingestion run whose counts are compared
MaxCounted == 3

\* transactions of two institutions: one twice over, and two that go to one
\* staging file
CountedTxns == {TxnFeb, TxnFebAgain, TxnFeb30, TxnApr31, TxnCapitalOne}

IngestCountedTxns ==
  \E txns \in SeqsUpTo(CountedTxns, MaxCounted) \ {<< >>} :
    Quiet /\ write_begin(1, txns) /\ UNCHANGED runs

\* ingestion runs, one at a time, each run to its end
NextCounts == IngestCountedTxns \/ WriteStep

SpecCounts == Init /\ [][NextCounts]_vars

\* batches of transactions whose payee a rule cleans, no rule cleans, and
\* that has two lines, two of them twice over
EntryTxns == {TxnFeb, TxnFebAgain, TxnMar, TxnMarAgain, TxnTwoLines}

IngestEntryTxns ==
  \E txns \in SeqsUpTo(EntryTxns, MaxBatch) \ {<< >>} :
    Quiet /\ write_begin(1, txns) /\ UNCHANGED runs

\* ingestion runs, one at a time, each run to its end
NextEntries == IngestEntryTxns \/ WriteStep

SpecEntries == Init /\ [][NextEntries]_vars

(***************************************************************************)
(* The RuleEngine called on its own (lib/rules.py)                         *)
(***************************************************************************)

\* how many rules a behaviour adds
MaxAdded == 2

\* what the callers pass
RawPayees == {<< "a", "b" >>, << "B" >>, << "c" >>}
Patterns == {<< "^", "a" >>, << "b" >>}
Names == {<< "B" >>, << "1" >>}
AccountPayees == {<< "b" >>, << "a", "b" >>}
Accounts == {Groceries, << >>}

\* RuleEngine(rules_dir)
rules_load ==
  /\ engine' = [loaded |-> TRUE,
                payee_rules |-> load_payees(rule_files.payees),
                account_rules |-> load_accounts(rule_files.accounts)]
  /\ out' = NoCall
  /\ UNCHANGED << command, seen, staging_dir, staging, dirs, postings, main_journal, wpc, w, ret, ppc,
                  p, echo, hist, runs, now, rule_files >>

\* the rule is written to payees.yaml at once
add_payee_rule_persisting(pattern, name) ==
  /\ engine.loaded
  /\ runs < MaxAdded
  /\ runs' = runs + 1
  /\ engine' = [engine EXCEPT !.payee_rules = Append(@, [pattern |-> pattern, name |-> name])]
  /\ rule_files' = [rule_files EXCEPT !.payees = dump_payees(engine'.payee_rules)]
  /\ out' = [call |-> "add_payee_rule"]
  /\ UNCHANGED << command, seen, staging_dir, staging, dirs, postings, main_journal, wpc, w, ret, ppc,
                  p, echo, hist, now >>

add_payee_rule(pattern, name) ==
  /\ engine.loaded
  /\ runs < MaxAdded
  /\ runs' = runs + 1
  /\ engine' = [engine EXCEPT !.payee_rules = Append(@, [pattern |-> pattern, name |-> name])]
  /\ out' = [call |-> "add_payee_rule"]
  /\ UNCHANGED << command, seen, staging_dir, staging, dirs, postings, main_journal, wpc, w, ret, ppc,
                  p, echo, hist, now, rule_files >>

add_account_rule(payee, account) ==
  /\ engine.loaded
  /\ runs < MaxAdded
  /\ runs' = runs + 1
  /\ engine' = [engine EXCEPT
                  !.account_rules = Append(@, [payee |-> payee, account |-> account])]
  /\ out' = [call |-> "add_account_rule"]
  /\ UNCHANGED << command, seen, staging_dir, staging, dirs, postings, main_journal, wpc, w, ret, ppc,
                  p, echo, hist, now, rule_files >>

save ==
  /\ engine.loaded
  /\ rule_files' = [payees |-> dump_payees(engine.payee_rules),
                    accounts |-> dump_accounts(engine.account_rules)]
  /\ out' = [call |-> "save"]
  /\ UNCHANGED << command, seen, staging_dir, staging, dirs, postings, main_journal, wpc, w, ret, ppc,
                  p, echo, hist, runs, now, engine >>

\* engine.normalize_payee(raw_payee)
call_normalize_payee(raw_payee) ==
  /\ engine.loaded
  /\ out' = [call |-> "normalize_payee", raw_payee |-> raw_payee,
             result |-> first_payee_match(engine.payee_rules, raw_payee)]
  /\ UNCHANGED << command, seen, staging_dir, staging, dirs, postings, main_journal, wpc, w, ret, ppc,
                  p, echo, hist, runs, now, engine, rule_files >>

\* engine.apply(raw_payee)
call_apply(raw_payee) ==
  /\ engine.loaded
  /\ out' = [call |-> "apply", raw_payee |-> raw_payee,
             result |-> RuleEngine_apply(engine, raw_payee)]
  /\ UNCHANGED << command, seen, staging_dir, staging, dirs, postings, main_journal, wpc, w, ret, ppc,
                  p, echo, hist, runs, now, engine, rule_files >>

AddPayeeRule == \E pattern \in Patterns, name \in Names : add_payee_rule(pattern, name)

AddAccountRule ==
  \E payee \in AccountPayees, account \in Accounts : add_account_rule(payee, account)

CallNormalizePayee == \E raw_payee \in RawPayees : call_normalize_payee(raw_payee)

CallApply == \E raw_payee \in RawPayees : call_apply(raw_payee)

NextRules ==
  rules_load \/ AddPayeeRule \/ AddAccountRule \/ save \/ CallNormalizePayee \/ CallApply

\* the rule directory is as installed, or holds no rule file
InitRules == InitState /\ rule_files \in {InstalledRuleFiles, NoRuleFiles}

SpecRules == InitRules /\ [][NextRules]_vars

(***************************************************************************)
(* The Fingerprinter's normalize_payee called on its own                   *)
(* (lib/fingerprint.py)                                                    *)
(***************************************************************************)

\* the longest raw payee passed
MaxPayeeLen == 3

PayeeChars == {"a", "A", "1", " ", "#"}

RawPayeeTexts == SeqsUpTo(PayeeChars, MaxPayeeLen)

\* normalize_payee(raw_payee)
call_fingerprint_normalize(raw_payee) ==
  /\ out' = [call |-> "fingerprint.normalize_payee", raw_payee |-> raw_payee,
             result |-> normalize_payee(raw_payee)]
  /\ UNCHANGED << command, seen, staging_dir, staging, dirs, postings, main_journal, wpc, w, ret, ppc,
                  p, echo, hist, runs, now, engine, rule_files >>

NextNormalize == \E raw_payee \in RawPayeeTexts : call_fingerprint_normalize(raw_payee)

SpecNormalize == Init /\ [][NextNormalize]_vars

(***************************************************************************)
(* The Fingerprinter's fingerprint called on its own, as                   *)
(* write_staging_journals calls it for a transaction                       *)
(***************************************************************************)

\* values of account, date, amount and source_id, with and without the
\* delimiter
FpFields == {<< "a" >>, << "a", "|", "a" >>}

FpPayees == {<< "a" >>, << "a", "!" >>, << "b" >>}

FpMemos == {<< >>, << "m" >>}

FpTxns ==
  {CanonicalTransaction(date, amount, payee, memo, account, source_id, Chase) :
     date \in FpFields, amount \in FpFields, payee \in FpPayees, memo \in FpMemos,
     account \in FpFields, source_id \in FpFields}

\* fp = fingerprint(account=txn.account, date=txn.date, amount=txn.amount,
\*                  payee=txn.payee, source_id=txn.source_id);
\* the call before it, and the fingerprints the DedupStore held at each
\* call, are kept for the properties
call_fingerprint(txn) ==
  /\ out' = [call |-> "fingerprint", txn |-> txn,
             result |-> fingerprint(txn.account, txn.date, txn.amount, txn.payee,
                                    txn.source_id),
             store |-> DOMAIN seen,
             before |-> IF out.call = "fingerprint"
                        THEN << [txn |-> out.txn, result |-> out.result,
                                 store |-> out.store] >>
                        ELSE << >>]
  /\ UNCHANGED << command, seen, staging_dir, staging, dirs, postings, main_journal, wpc, w, ret, ppc,
                  p, echo, hist, runs, now, engine, rule_files >>

NextFingerprint == \E txn \in FpTxns : call_fingerprint(txn)

SpecFingerprint == Init /\ [][NextFingerprint]_vars

CallFingerprint == \E txn \in SourceTxns : call_fingerprint(txn)

\* fingerprint called between the steps of ingestion runs
NextDeterminism == IngestSources \/ WriteStep \/ CallFingerprint

SpecDeterminism == Init /\ [][NextDeterminism]_vars

(***************************************************************************)
(* The canonical record written and read back                              *)
(* (lib/csv_normalizer.py, CanonicalTransaction)                           *)
(***************************************************************************)

\* the longest payee serialized
MaxJsonLen == 2

JsonChars == {"a", "\"", "\\", "\n"}

JsonTxns ==
  {CanonicalTransaction(TxnFeb.date, TxnFeb.amount, payee, memo, AcctChase, source_id, Chase) :
     payee \in SeqsUpTo(JsonChars, MaxJsonLen),
     memo \in {<< >>, << "\"", ",", " ", "\"" >>, << "}" >>},
     source_id \in {<< >>, << "1", ":", "\\" >>}}

\* CanonicalTransaction.from_json(txn.to_json())
call_round_trip(txn) ==
  /\ out' = [call |-> "from_json", txn |-> txn, line |-> to_json(txn),
             result |-> from_json(to_json(txn))]
  /\ UNCHANGED << command, seen, staging_dir, staging, dirs, postings, main_journal, wpc, w, ret, ppc,
                  p, echo, hist, runs, now, engine, rule_files >>

NextJson == \E txn \in JsonTxns : call_round_trip(txn)

SpecJson == Init /\ [][NextJson]_vars

(***************************************************************************)
(* normalize_csv called on its own                                         *)
(***************************************************************************)

\* the most data rows a file has
MaxRows == 2

\* normalize_csv(csv_path, profile)
call_normalize_csv(rows, profile) ==
  /\ out' = [call |-> "normalize_csv", rows |-> rows, profile |-> profile,
             result |-> normalize_csv(rows, profile)]
  /\ UNCHANGED << command, seen, staging_dir, staging, dirs, postings, main_journal, wpc, w, ret, ppc,
                  p, echo, hist, runs, now, engine, rule_files >>

NextCsv ==
  \E rows \in SeqsUpTo(CsvRows, MaxRows), profile \in Profiles : call_normalize_csv(rows, profile)

SpecCsv == Init /\ [][NextCsv]_vars

(***************************************************************************)
(* ingest_simplefin called on its own, and both sources of canonical       *)
(* records                                                                 *)
(***************************************************************************)

\* the most transactions an account holds in one answer
MaxApiTxns == 2

\* the most windows a request is cut into
MaxWindows == 2

\* what the API may answer for the windows of one request
ApiResponses ==
  SeqsUpTo({<< ApiAccount(transactions) >> : transactions \in SeqsUpTo(ApiTxns, MaxApiTxns)},
           MaxWindows)

\* ingest_simplefin(project_root, days)
call_ingest_simplefin(responses) ==
  /\ out' = [call |-> "ingest_simplefin", responses |-> responses,
             accounts |-> merge_windows(<< >>, responses),
             result |-> ingest_simplefin(responses, UtcToday)]
  /\ UNCHANGED << command, seen, staging_dir, staging, dirs, postings, main_journal, wpc, w, ret, ppc,
                  p, echo, hist, runs, now, engine, rule_files >>

CallIngestSimplefin == \E responses \in ApiResponses : call_ingest_simplefin(responses)

NextCanonical == NextCsv \/ CallIngestSimplefin

SpecCanonical == Init /\ [][NextCanonical]_vars

\* a second account of the same institution
ApiAccountB(transactions) ==
  [ApiAccount(transactions) EXCEPT !.id = << "B" >>, !.name = << "L", "o", "a", "n" >>]

\* a purchase settled and pending, and a refund
MergeTxns == {t \in ApiTxns : t.id \in {<< "1" >>, << "2" >>}}

\* what the API may answer for one window: up to two accounts, the first
\* account with up to two transactions
MergeWindows ==
  SeqsUpTo({ApiAccount(transactions) : transactions \in SeqsUpTo(MergeTxns, MaxApiTxns)}
             \cup {ApiAccountB(transactions) : transactions \in SeqsUpTo(MergeTxns, 1)},
           2)

\* ingest_simplefin(project_root, days) run at end_date: the windows are
\* built, responses[n] is what the API answers to the request for window n
call_ingest_range(end_date, days, responses) ==
  /\ Len(responses) = Len(chunk_windows(end_date, days))
  /\ out' = [call |-> "ingest_simplefin", requests |-> chunk_windows(end_date, days),
             responses |-> responses,
             accounts |-> merge_windows(<< >>, responses),
             result |-> ingest_simplefin(responses, UtcToday)]
  /\ UNCHANGED << command, seen, staging_dir, staging, dirs, postings, main_journal, wpc, w, ret, ppc,
                  p, echo, hist, runs, now, engine, rule_files >>

\* ingest_simplefin called once, for no day, 45 days or 90 days
NextMerge ==
  /\ out = NoCall
  /\ \E responses \in SeqsUpTo(MergeWindows, MaxWindows), days \in {0, 45, 90} :
       call_ingest_range(1000, days, responses)

SpecMerge == Init /\ [][NextMerge]_vars

(***************************************************************************)
(* The date windows of ingest_simplefin                                    *)
(***************************************************************************)

\* the longest range asked for, in days
MaxDays == 130

\* the days, counted from an origin, on which the command is run
EndDates == {1000, 1059}

\* the windows are built and a request is made for each, in their order
call_chunk_windows(end_date, days) ==
  /\ out' = [call |-> "windows", end_date |-> end_date, days |-> days,
             requests |-> chunk_windows(end_date, days)]
  /\ UNCHANGED << command, seen, staging_dir, staging, dirs, postings, main_journal, wpc, w, ret, ppc,
                  p, echo, hist, runs, now, engine, rule_files >>

NextWindows == \E end_date \in EndDates, days \in (0 - 2)..MaxDays : call_chunk_windows(end_date, days)

SpecWindows == Init /\ [][NextWindows]_vars

(***************************************************************************)
(* Ingestion commands, one at a time                                       *)
(***************************************************************************)

\* the rows of the files given to the command
MainRows ==
  {<< << "2", "0", "2", "6", "-", "0", "2", "-", "1", "5" >>, << "-", "4", "2", ".", "5", "0" >>, << "a" >> >>,
   << << "2", "0", "2", "6", "-", "0", "2", "-", "1", "6" >>, << "0" >>, << "c" >>, << "x" >> >>,
   << << "2", "0", "2", "6", "-", "0", "2", "-", "3", "0" >>, << "4", ".", "0", "0" >>, << "a" >> >>,
   << << "2", "0", "2", "6", "-", "0", "2", "-", "1", "5" >> >>}

MainCsv ==
  \E csv_file \in BOOLEAN, profile_name \in BOOLEAN, profile_exists \in BOOLEAN,
     rows \in SeqsUpTo(MainRows, MaxRows), profile \in Profiles :
    main_csv(csv_file, profile_name, profile_exists, rows, profile)

MainOpenStore == \E fault \in {"none", "mkdir", "connect"} : main_open_store(fault)

NextMain == MainCsv \/ MainOpenStore \/ WriteStep \/ main_close \/ main_raise

SpecMain == Init /\ [][NextMain]_vars

\* an account with at most one transaction in a window
MainResponses ==
  SeqsUpTo({<< ApiAccount(transactions) >> : transactions \in SeqsUpTo(ApiTxns, 1)},
           MaxWindows)

MainSimplefin ==
  \E access_url \in BOOLEAN, responses \in MainResponses : main_simplefin(access_url, responses)

NextApi == MainSimplefin \/ MainOpenStore \/ WriteStep \/ main_close \/ main_raise

SpecApi == Init /\ [][NextApi]_vars

(***************************************************************************)
(* SimpleFIN ingestion runs on successive days (bin/ingest.py)             *)
(***************************************************************************)

\* one run of source simplefin on the day the clock reads: the API answers
\* one window with the account and its settled transactions, and what
\* ingest_simplefin returns is handed to write_staging_journals
pull_simplefin(transactions) ==
  /\ Quiet
  /\ runs < MaxRuns
  /\ runs' = runs + 1
  /\ write_begin(1, ingest_simplefin(<< << ApiAccount(transactions) >> >>, utc_today(now)))

PullSimplefin ==
  \E transactions \in SeqsUpTo(SettledTxns, MaxApiTxns) \ {<< >>} : pull_simplefin(transactions)

\* a day passes between two runs
DayPasses == Quiet /\ tick

\* runs one at a time, each to its end
NextDays == PullSimplefin \/ WriteStep \/ DayPasses

SpecDays == Init /\ [][NextDays]_vars

(***************************************************************************)
(* Properties                                                              *)
(***************************************************************************)

\* the entries a set of files holds
EntriesIn(files) == UNION {Range(files[f]) : f \in DOMAIN files}

\* C1. Dedup idempotence: a run of write_staging_journals on the batch the
\* run just before it completed with appends nothing to staging, leaves the
\* DedupStore (and so its count) as it was, and returns no non-zero count.
C1_DedupIdempotence ==
  [][\A r \in Runs :
       (wpc[r] # "idle" /\ hist.cur[r].repeats = "done") =>
         /\ staging' = staging
         /\ seen' = seen /\ count(seen') = count(seen)
         /\ (wpc'[r] = "idle" => \A x \in DOMAIN ret' : ret'[x] = 0)]_vars

\* a second run of a batch whose first run staged something is about to return
C1_Witness ==
  /\ wpc[1] = "return"
  /\ hist.cur[1].repeats = "done"
  /\ hist.cur[1].unseen_before # {}
  /\ hist.cur[1].unseen_before \subseteq FingerprintsIn(staging)

\* C2. No duplicate postings: no fingerprint appears in more than one entry
\* across the files under postings/.
C2_NoDuplicatePostings == \A fp \in FingerprintsIn(postings) : FpCount(postings, fp) <= 1

\* C3. Promotion conserves entries: when a staged file is deleted, every
\* entry it held is in some file under postings/.
C3_PromotionConserves ==
  [][\A f \in DOMAIN staging :
       f \notin DOMAIN staging' => Range(staging[f]) \subseteq EntriesIn(postings')]_vars

\* the includes are the posted files, each once, in ascending path order
ListsExactly(includes, posted) ==
  /\ Range(includes) = DOMAIN posted
  /\ \A a, b \in 1..Len(includes) : a < b => PathLess(includes[a], includes[b])

\* C4. Promotion atomicity: when a promotion that is no dry run ends, no
\* journal file is left in staging and the manifest is the generated header
\* with exactly one include per file under postings/, in sorted path order.
C4_PromotionAtomicity ==
  [][(ppc = "manifest" /\ echo'.status = "done") =>
       /\ DOMAIN staging' = {}
       /\ main_journal'.header = "generated"
       /\ ListsExactly(main_journal'.includes, postings')]_vars

\* C5. Posted files are append-only: a file under postings/ is never removed
\* and what it held before a step is a prefix of what it holds after.
C5_PostedAppendOnly ==
  [][\A f \in DOMAIN postings :
       f \in DOMAIN postings' /\ IsPrefix(postings[f], postings'[f])]_vars

\* a promotion has appended to a posted file that held entries before: the
\* file is longer than all that this run has moved into it
C5_Witness ==
  /\ ppc \in {"scan", "append", "remove"}
  /\ \E n \in 1..Len(hist.moved) :
       LET dest == hist.moved[n][2]
           into == {k \in 1..Len(hist.moved) : hist.moved[k][2] = dest}
       IN  /\ Cardinality(into) = 1
           /\ hist.moved[n][1] \in DOMAIN staging
           /\ Len(postings[dest]) > Len(staging[hist.moved[n][1]])

\* C6. Staging resume safety: when the batch of an aborted run is ingested
\* again to completion, every fingerprint of the batch that was unseen before
\* the aborted run has its entry in staging, once.
C6_ResumeSafety ==
  \A r \in Runs :
    (wpc[r] = "return" /\ hist.cur[r].repeats = "aborted") =>
      \A fp \in hist.cur[r].unseen_before : FpCount(staging, fp) = 1

\* C7. Write-then-mark: at every point of a run (each a possible crash
\* point), a fingerprint the run has marked seen has its entry in staging.
C7_WriteThenMark ==
  \A r \in Runs :
    \A g \in Range(w[r].grouped) :
      \A e \in Range(g.entries) : e.fp \in DOMAIN seen => e.fp \in FingerprintsIn(staging)

\* C8. Partial-promotion recovery: when a promotion has been aborted and the
\* promotion run next ends, the posted entries are those an uninterrupted
\* promotion would have left (each as many times), staging holds no journal
\* file and the manifest lists every posted file.
C8_PromotionRecovery ==
  [][(/\ hist.recovering
      /\ ppc' = "idle"
      /\ \/ ppc = "manifest" /\ echo'.status = "done"
         \/ ppc = "idle" /\ echo'.status = "nothing" /\ (\E d \in BOOLEAN : post_begin(d))) =>
       /\ PostedCounts(postings') = hist.expected
       /\ DOMAIN staging' = {}
       /\ DOMAIN postings' # {} => main_journal'.header = "generated"
       /\ Range(main_journal'.includes) = DOMAIN postings']_vars

\* C9. Dry-run promotion mutates nothing: no step of a dry run changes a
\* file, a directory, the manifest or the DedupStore, and the moves it has
\* reported when it ends are the moves of the staged files, which are what a
\* run that is no dry run has reported and performed when its appends end.
C9_DryRunMutatesNothing ==
  [][/\ ((ppc # "idle" /\ p.dry_run) \/ (ppc' # "idle" /\ p'.dry_run)) =>
          UNCHANGED << seen, staging_dir, staging, dirs, postings, main_journal >>
     /\ (ppc # "idle" /\ p.dry_run /\ ppc' = "idle") =>
          (echo'.status = "dry-run" /\ echo'.moves = Moves(staging))
     /\ (ppc \in {"scan", "append"} /\ ~p.dry_run /\ ppc' = "remove") =>
          (echo'.moves = Moves(staging) /\ hist'.moved = Moves(staging))]_vars

\* a dry run has ended and reported several moves, with files posted before
C9_Witness ==
  /\ Quiet
  /\ echo.status = "dry-run"
  /\ Len(echo.moves) >= 2
  /\ DOMAIN postings # {}

\* C10. Promotion with nothing staged: when the staging directory is absent
\* or holds no journal file, the run ends at once, reporting that nothing is
\* staged, and changes nothing.
C10_NothingStagedNoOp ==
  [][(ppc = "idle" /\ (~staging_dir \/ DOMAIN staging = {})
      /\ (\E d \in BOOLEAN : post_begin(d))) =>
       /\ ppc' = "idle"
       /\ echo'.status = "nothing"
       /\ UNCHANGED << seen, staging_dir, staging, dirs, postings, main_journal >>]_vars

\* a run found the staging directory empty, after earlier promotions
C10_Witness ==
  /\ Quiet
  /\ echo.status = "nothing"
  /\ staging_dir
  /\ DOMAIN staging = {}
  /\ DOMAIN postings # {}

\* C11. The DedupStore is write-once per key: a recorded fingerprint stays
\* recorded with the source and posted_at it was first given; mark_seen of a
\* recorded fingerprint, whatever the source, changes nothing, the count
\* included; the count is the number of distinct fingerprints ever marked.
C11_WriteOncePerKey ==
  [][/\ \A fp \in DOMAIN seen : is_seen(seen', fp) /\ seen'[fp] = seen[fp]
     /\ (\E fp \in DOMAIN seen, source \in Sources : store_mark(fp, source)) =>
          (seen' = seen /\ count(seen') = count(seen))
     /\ count(seen') = Cardinality(hist'.marked)]_vars

\* a fingerprint recorded at an earlier time has been marked again, with
\* another source
C11_Witness ==
  /\ out.call = "mark_seen"
  /\ out.fp \in DOMAIN seen
  /\ seen[out.fp].source # out.source
  /\ seen[out.fp].posted_at < now

\* C12. Concurrent ingestion runs are loss-free: when two runs over the same
\* batch, interleaved in any way, have both returned, every fingerprint of
\* the batch that was unseen beforehand has one or two entries in staging
\* and its record in the DedupStore.
C12_ConcurrentLossFree ==
  (Quiet /\ hist.prev.kind = "done") =>
    \A fp \in hist.prev.unseen0 :
      /\ FpCount(staging, fp) \in {1, 2}
      /\ is_seen(seen, fp)

\* both runs found a fingerprint unseen and both staged its entry
C12_Witness ==
  /\ Quiet
  /\ hist.prev.kind = "done"
  /\ \E fp \in hist.prev.unseen0 : FpCount(staging, fp) = 2
  /\ \E fp \in hist.prev.unseen0 : FpCount(staging, fp) = 1

\* C13. Promotion holds an exclusive scope over the staging directory: from
\* the start of Scanning to the end of Finalizing no ingestion run writes to
\* a staging file.
C13_PromotionExclusive ==
  [][ppc # "idle" => ~(\E r \in Runs : write_append(r))]_vars

\* C14. Promotion re-partitions by transaction date: every posted file
\* postings/<year>/<year-month>/<source>.journal holds only entries whose
\* header date lies in <year-month>.
C14_RepartitionByDate ==
  \A f \in DOMAIN postings :
    \A e \in Range(postings[f]) : EntryMonths[e] = {f[2]}

\* the institution tag of the transaction an entry was rendered from
InstitutionOf(e) == (CHOOSE txn \in AllTxns : Entry(txn) = e).institution

\* C15. Promotion preserves the source: an entry staged for institution tag
\* I is posted to a file named I.journal, so that no posted file holds
\* entries of two institutions.
C15_SourcePreserved ==
  \A f \in DOMAIN postings :
    \A e \in Range(postings[f]) : f[3] = InstitutionOf(e) \o JournalExt

\* the least element of a non-empty set of numbers
Least(S) == CHOOSE i \in S : \A j \in S : i <= j

\* the payee rules of the engine that match the raw payee, by position
PayeeHits(raw_payee) ==
  {i \in 1..Len(engine.payee_rules) : matches(engine.payee_rules[i], raw_payee)}

\* the account rules of the engine whose payee is the clean payee, whatever
\* the case
AccountHits(clean_payee) ==
  {i \in 1..Len(engine.account_rules) :
     LowerStr(engine.account_rules[i].payee) = LowerStr(clean_payee)}

\* C16. Payee rule precedence: normalize_payee returns the name of the
\* matching payee rule that comes first in the list, and the raw payee
\* unchanged when no rule matches.
C16_PayeeRulePrecedence ==
  out.call = "normalize_payee" =>
    out.result = IF PayeeHits(out.raw_payee) = {} THEN out.raw_payee
                 ELSE engine.payee_rules[Least(PayeeHits(out.raw_payee))].name

\* two rules with different names match the payee
C16_Witness ==
  /\ out.call = "normalize_payee"
  /\ \E i, j \in PayeeHits(out.raw_payee) :
       i < j /\ engine.payee_rules[i].name # engine.payee_rules[j].name

\* C17. Account categorization: apply returns the clean payee together with
\* the account of the first account rule whose payee is the clean payee
\* whatever the case, and Expenses:Uncategorized when there is none.
C17_AccountCategorization ==
  out.call = "apply" =>
    /\ out.result[2] =
         IF AccountHits(out.result[1]) = {} THEN Uncategorized
         ELSE engine.account_rules[Least(AccountHits(out.result[1]))].account
    /\ (engine.payee_rules = << >> /\ engine.account_rules = << >>) =>
         out.result = << out.raw_payee, Uncategorized >>

\* C18. Rule save/reload round-trip: once save has run, an engine loaded
\* from the rule files has the rule lists of the saving engine, in order, and
\* so the same apply.
C18_SaveReloadRoundTrip ==
  [][save =>
       /\ rule_files'.payees.exists /\ rule_files'.accounts.exists
       /\ load_payees(rule_files'.payees) = engine.payee_rules
       /\ load_accounts(rule_files'.accounts) = engine.account_rules
       /\ \A raw_payee \in RawPayees :
            RuleEngine_apply([payee_rules |-> load_payees(rule_files'.payees),
                              account_rules |-> load_accounts(rule_files'.accounts)],
                             raw_payee)
            = RuleEngine_apply(engine, raw_payee)]_vars

\* rules that were added after the loaded ones have been saved over the
\* earlier files, among them a name that looks like a number and an empty
\* account
C18_Witness ==
  /\ out.call = "save"
  /\ Len(engine.payee_rules) >= 2
  /\ Len(engine.account_rules) >= 2
  /\ \E i \in 1..Len(engine.payee_rules) : engine.payee_rules[i].name = << "1" >>
  /\ \E i \in 1..Len(engine.account_rules) : engine.account_rules[i].account = << >>
  /\ rule_files # InstalledRuleFiles

\* C19. Rule addition does not persist: add_payee_rule and add_account_rule
\* append the rule to the engine's list and leave the rule files as they
\* were, so that an engine loaded from them lacks the added rule.
C19_AddDoesNotPersist ==
  [][/\ \A pattern \in Patterns, name \in Names :
          add_payee_rule(pattern, name) =>
            /\ rule_files' = rule_files
            /\ engine'.payee_rules
                 = Append(engine.payee_rules, [pattern |-> pattern, name |-> name])
            /\ engine'.account_rules = engine.account_rules
            /\ Len(load_payees(rule_files'.payees)) < Len(engine'.payee_rules)
     /\ \A payee \in AccountPayees, account \in Accounts :
          add_account_rule(payee, account) =>
            /\ rule_files' = rule_files
            /\ engine'.account_rules
                 = Append(engine.account_rules, [payee |-> payee, account |-> account])
            /\ engine'.payee_rules = engine.payee_rules
            /\ Len(load_accounts(rule_files'.accounts)) < Len(engine'.account_rules)]_vars

\* a rule has been added to an engine whose rules had been saved
C19_Witness ==
  /\ out.call \in {"add_payee_rule", "add_account_rule"}
  /\ rule_files # InstalledRuleFiles
  /\ rule_files.payees.exists
  /\ load_payees(rule_files.payees) # engine.payee_rules
     \/ load_accounts(rule_files.accounts) # engine.account_rules

\* C20. Payee normalization is idempotent: normalizing what normalize_payee
\* returned gives it back unchanged.
C20_NormalizeIdempotent ==
  out.call = "fingerprint.normalize_payee" => normalize_payee(out.result) = out.result

\* what the fingerprint is meant to tell apart
Identity(txn) ==
  << txn.account, txn.date, txn.amount, txn.source_id, normalize_payee(txn.payee) >>

\* C21. Fingerprint sensitivity: two transactions that differ in account,
\* date, amount, source_id or normalized payee have different digests,
\* whatever the fields contain; two that differ only in memo or in payee
\* characters the normalization removes have the same digest.
C21_FingerprintSensitivity ==
  (out.call = "fingerprint" /\ out.before # << >>) =>
    LET b == out.before[1]
    IN  /\ Identity(out.txn) # Identity(b.txn) => out.result # b.result
        /\ Identity(out.txn) = Identity(b.txn) => out.result = b.result

\* the five arguments of fingerprint
FingerprintArgs(txn) == << txn.account, txn.date, txn.amount, txn.payee, txn.source_id >>

C23_CanonicalRoundTrip ==
  out.call = "from_json" => (out.result.ok /\ out.result.txn = out.txn)

\* a record whose payee holds a quote and a backslash came back
C23_Witness ==
  /\ out.call = "from_json"
  /\ out.txn.payee = << "\"", "\\" >>
  /\ out.txn.memo # << >>
  /\ out.result.ok
  /\ out.result.txn.payee = << "\"", "\\" >>

\* C24. Canonicalization skips and never raises: normalize_csv raises no
\* exception, and its output is the conversion, in order, of exactly the rows
\* that have every header field, a date strptime accepts and an amount float
\* accepts.
C24_SkipsNeverRaises ==
  out.call = "normalize_csv" =>
    /\ ~out.result.raised
    /\ LET good == SelectSeq(out.rows, LAMBDA fields : fields \in GoodRows)
       IN  out.result.transactions
             = [n \in 1..Len(good) |-> normalize_row(good[n], out.profile).txn]

\* YYYY-MM-DD
IsIsoDate(date) ==
  /\ Len(date) = 10
  /\ \A n \in {1, 2, 3, 4, 6, 7, 9, 10} : IsDigit(date[n])
  /\ date[5] = "-" /\ date[8] = "-"

\* the API transactions a canonical record may derive from
ApiSources(responses, txn) ==
  {t \in UNION {Range(responses[n][1].transactions) : n \in 1..Len(responses)} :
     t.id = txn.source_id}

\* C25. Canonical record invariant: every CanonicalTransaction of either
\* path has a date of the form YYYY-MM-DD; the amount of a record of the API
\* path is positive for a debit of the source account (the API reports it
\* negative) and negative for a credit; on the CSV path a profile with
\* amount_invert set yields the negated source amount.
C25_CanonicalInvariant ==
  /\ (out.call = "normalize_csv" /\ ~out.result.raised) =>
       LET good == SelectSeq(out.rows, LAMBDA fields : fields \in GoodRows)
       IN  \A n \in 1..Len(out.result.transactions) :
             LET txn == out.result.transactions[n]
                 src == float(RemoveAll(Strip(good[n][2]), << "," >>))
             IN  /\ IsIsoDate(txn.date)
                 /\ float(txn.amount) = (IF out.profile.amount_invert THEN negate(src) ELSE src)
  /\ out.call = "ingest_simplefin" =>
       \A n \in 1..Len(out.result) :
         LET txn == out.result[n]
         IN  /\ IsIsoDate(txn.date)
             /\ \A t \in ApiSources(out.responses, txn) :
                  float(t.amount).neg = ~float(txn.amount).neg

\* C26. Pending transactions are never ingested: every transaction
\* ingest_simplefin returned, every fingerprint in the DedupStore, every
\* fingerprint a run holds and every staged entry is that of a transaction
\* some request retained in a version that was not pending.
C26_PendingNeverIngested ==
  /\ \A n \in 1..Len(cli.transactions) : txn_fingerprint(cli.transactions[n]) \in hist.settled
  /\ DOMAIN seen \subseteq hist.settled
  /\ \A r \in Runs :
       /\ \A n \in 1..Len(w[r].transactions) :
            txn_fingerprint(w[r].transactions[n]) \in hist.settled
       /\ w[r].fp # << >> => w[r].fp \in hist.settled
  /\ \A f \in DOMAIN staging : \A e \in Range(staging[f]) : e.fp \in hist.settled

\* a request retained a pending transaction next to settled ones, and the
\* run has ended with the settled ones staged and the pending one nowhere
C26_Witness ==
  /\ hist.skipped # {}
  /\ hist.skipped \cap hist.settled = {}
  /\ cli.status = "done"
  /\ DOMAIN seen # {}
  /\ DOMAIN seen \cap hist.skipped = {}
  /\ \E f \in DOMAIN staging : staging[f] # << >>

\* C27. Configuration errors abort before any side effect: a command that
\* ends on a missing profile file, or on a CSV import without --file or
\* --profile, ends there with a non-zero outcome and has changed nothing
\* under import/, in the DedupStore or in the journals.
C27_ConfigErrorNoSideEffect ==
  [][cli'.status = "config_error" =>
       /\ cli'.pc = "idle"
       /\ UNCHANGED << imports, seen, staging_dir, staging, dirs, postings, main_journal >>]_vars

\* a command ended on a configuration error after an earlier one had
\* archived, written and staged
C27_Witness ==
  /\ cli.status = "config_error"
  /\ cli.pc = "idle"
  /\ runs = MaxCommands
  /\ imports.raw # {}
  /\ imports.canonical # << >>
  /\ DOMAIN seen # {}

\* C28. Storage errors fail before staging: when the DedupStore cannot be
\* opened the command ends there, and from that failure to the end of the
\* run no step creates the staging directory, creates a staging file or
\* appends to one, and no write_staging_journals is under way.
C28_StoreErrorBeforeStaging ==
  [][cli'.fault # "none" =>
       /\ cli'.pc = "idle"
       /\ cli'.status = "store_error"
       /\ \A r \in Runs : wpc'[r] = "idle"
       /\ UNCHANGED << staging_dir, staging >>]_vars

\* a command that had transactions to stage ended on a DedupStore that could
\* not be connected to; nothing is staged, not even the staging directory
C28_Witness ==
  /\ cli.status = "store_error"
  /\ cli.fault = "connect"
  /\ imports.canonical # << >>
  /\ imports.state_dir
  /\ ~staging_dir
  /\ staging = NoFiles

\* C29. The DedupStore is released on every exit path: the connection is
\* open exactly while the command is in its staging step, every run of
\* write_staging_journals works on an open connection, and the step that
\* ends the staging step, by return or by exception, leaves it closed.
C29_StoreReleased ==
  /\ [](cli.pc = "writing" <=> cli.conn = "open")
  /\ []((\E r \in Runs : wpc[r] # "idle") => cli.conn = "open")
  /\ [][(cli.pc = "writing" /\ cli'.pc # "writing") => cli'.conn = "closed"]_vars

\* write_staging_journals raised after it had marked a fingerprint, and the
\* connection is closed
C29_Witness ==
  /\ cli.status = "raised"
  /\ cli.conn = "closed"
  /\ hist.aborts > 0
  /\ DOMAIN seen # {}

\* the institution of a staging file: its name without "_", the month key
\* (seven characters, "unknown" too) and the extension
file_institution(name) == SubSeq(name, 1, Len(name) - Len(JournalExt) - 8)

\* how many entries the files hold for an institution beyond those of before
AppendedFor(before, files, inst) ==
  Cardinality({<< f, n >> \in UNION {{f} \X (1..Len(files[f])) : f \in DOMAIN files} :
                 /\ file_institution(f) = inst
                 /\ n > (IF f \in DOMAIN before THEN Len(before[f]) ELSE 0)})

\* how many fingerprints the store holds for an institution beyond those of before
RecordedFor(before, table, inst) ==
  Cardinality({fp \in DOMAIN table \ before : table[fp].source = inst})

CountOf(stats, inst) == IF inst \in DOMAIN stats THEN stats[inst] ELSE 0

\* C30. Returned counts match what was written: on the step on which
\* write_staging_journals returns, the count it returns for each institution
\* is the number of entries the call appended to the staging files of that
\* institution, which is the number of fingerprints the call newly recorded
\* in the DedupStore for it; the call only appended to the staging files; and
\* a call whose batch was all seen when it began returns no non-zero count
\* and leaves the staging files as they were.
C30_CountsMatchWritten ==
  [][\A r \in Runs :
       (wpc[r] # "idle" /\ wpc'[r] = "idle" /\ hist'.prev.kind = "done") =>
         LET cur == hist.cur[r]
         IN  /\ \A inst \in {txn.institution : txn \in AllTxns} \cup DOMAIN ret' :
                  /\ CountOf(ret', inst) = AppendedFor(cur.staging0, staging', inst)
                  /\ CountOf(ret', inst) = RecordedFor(cur.seen0, seen', inst)
             /\ \A f \in DOMAIN cur.staging0 :
                  f \in DOMAIN staging' /\ IsPrefix(cur.staging0[f], staging'[f])
             /\ cur.unseen0 = {} =>
                  /\ \A inst \in DOMAIN ret' : ret'[inst] = 0
                  /\ staging' = cur.staging0]_vars

\* a call has returned two for one institution and one for another, and one
\* of its entries went to a staging file that held an entry before it
C30_Witness ==
  /\ Quiet
  /\ hist.prev.kind = "done"
  /\ \E a, b \in DOMAIN ret : ret[a] = 2 /\ ret[b] = 1
  /\ Cardinality(DOMAIN seen) = 4
  /\ \E f \in DOMAIN staging : Len(staging[f]) = 2

\* the staging file the entry of a transaction belongs in
FileFor(txn) ==
  txn.institution \o << "_" >>
  \o (IF StrptimeOk(txn.date) THEN SubSeq(txn.date, 1, 7) ELSE Unknown)
  \o << ".", "j", "o", "u", "r", "n", "a", "l" >>

\* the places of the files that hold an entry beyond those of before
Appended(before, files) ==
  {<< f, n >> \in UNION {{f} \X (1..Len(files[f])) : f \in DOMAIN files} :
     n > (IF f \in DOMAIN before THEN Len(before[f]) ELSE 0)}

\* the first transaction of a batch with a fingerprint
FirstWith(txns, fp) ==
  txns[CHOOSE n \in 1..Len(txns) :
         /\ txn_fingerprint(txns[n]) = fp
         /\ \A m \in 1..(n - 1) : txn_fingerprint(txns[m]) # fp]

\* C31. Staging partitioning and accumulation: on the step on which
\* write_staging_journals returns, every staging file of before the call is
\* still there with its earlier content as a prefix, and every fingerprint
\* that was unseen when the call began has exactly one entry appended, the
\* entry of its transaction, in the file <institution>_<YYYY-MM>.journal of
\* the month of the transaction date, or <institution>_unknown.journal when
\* strptime rejects the date; nothing else is appended.
C31_StagingPartition ==
  [][\A r \in Runs :
       (wpc[r] # "idle" /\ wpc'[r] = "idle" /\ hist'.prev.kind = "done") =>
         LET cur == hist.cur[r]
             new == Appended(cur.staging0, staging')
         IN  /\ \A f \in DOMAIN cur.staging0 :
                  f \in DOMAIN staging' /\ IsPrefix(cur.staging0[f], staging'[f])
             /\ \A fp \in cur.unseen0 :
                  LET txn == FirstWith(w[r].transactions, fp)
                  IN  /\ FileFor(txn) \in DOMAIN staging'
                      /\ \E n \in 1..Len(staging'[FileFor(txn)]) :
                           /\ staging'[FileFor(txn)][n] = Entry(txn)
                           /\ {x \in new : staging'[x[1]][x[2]].fp = fp}
                                = {<< FileFor(txn), n >>}
             /\ \A x \in new : staging'[x[1]][x[2]].fp \in cur.unseen0]_vars

\* a call has returned after appending an entry to the unknown file of an
\* institution, which held an entry of an earlier call, and an entry to a
\* file of a month, which it created
C31_Witness ==
  /\ Quiet
  /\ hist.prev.kind = "done"
  /\ \E f \in DOMAIN staging :
       /\ Len(staging[f]) = 2
       /\ staging[f][2].fp \in hist.prev.unseen0
       /\ staging[f][1].fp \notin hist.prev.unseen0
       /\ \E txn \in Txns : f = FileFor(txn) /\ ~StrptimeOk(txn.date)
  /\ \E f \in DOMAIN staging :
       /\ Len(staging[f]) = 1
       /\ staging[f][1].fp \in hist.prev.unseen0
       /\ \E txn \in Txns : f = FileFor(txn) /\ StrptimeOk(txn.date)

\* C32. Promotion step ordering: while a promotion that is no dry run scans
\* and appends, every staged file of the run is in staging; a staged file is
\* deleted only in the removal loop, which the run enters with the appends of
\* every (staged file, month) pair done and staging as it was; the manifest
\* is rewritten only when no staged file of the run is left; and an abort
\* before the removal loop leaves every staged file in place.
C32_PromotionStepOrder ==
  /\ []((ppc \in {"scan", "append"} /\ ~p.dry_run) => Range(p.staged_files) \subseteq DOMAIN staging)
  /\ [][/\ DOMAIN staging \ DOMAIN staging' # {} => ppc = "remove"
        /\ (ppc # "remove" /\ ppc' = "remove") =>
             /\ hist'.moved = Moves(staging)
             /\ staging' = staging
             /\ Range(p'.staged_files) = DOMAIN staging'
        /\ main_journal' # main_journal => Range(p.staged_files) \cap DOMAIN staging = {}
        /\ (ppc \in {"scan", "append"} /\ ppc' = "idle" /\ ~p.dry_run) =>
             /\ echo'.status = "aborted"
             /\ staging' = staging
             /\ Range(p.staged_files) \subseteq DOMAIN staging']_vars

\* a promotion of several staged files with several appends behind it has
\* deleted its first staged file and not yet its last
C32_Witness ==
  /\ ppc = "remove"
  /\ p.u = 2
  /\ Len(p.staged_files) >= 2
  /\ Cardinality({hist.moved[n][1] : n \in 1..Len(hist.moved)}) >= 2
  /\ p.staged_files[1] \notin DOMAIN staging
  /\ p.staged_files[2] \in DOMAIN staging

\* the lines a staging file holds for the entry of a transaction: header,
\* two postings and a blank line, each ended by a newline
EntryLines(txn) ==
  << txn.date \o << " " >> \o apply(txn.payee)[1]
       \o << " ", " ", ";", " ", "f", "i", "n", "g", "e", "r", "p", "r", "i", "n", "t", ":" >>
       \o fingerprint(txn.account, txn.date, txn.amount, txn.payee, txn.source_id),
     << " ", " ", " ", " " >> \o apply(txn.payee)[2] \o << " ", " ", " ", " ", "$" >> \o txn.amount,
     << " ", " ", " ", " " >> \o txn.account,
     << >>,
     << >> >>

\* C33. Staged entry content: the text of every entry in a staging file is,
\* for a transaction, a header line with its date, its rule-cleaned payee and
\* fingerprint:<digest>, a posting line with the rule-resolved account and
\* the amount, a posting line with the source account alone, and a blank
\* line, the digest being the fingerprint of the transaction's raw payee.
C33_StagedEntryContent ==
  \A f \in DOMAIN staging :
    \A n \in 1..Len(staging[f]) :
      \E txn \in AllTxns : SplitAll(EntryText(staging[f][n]), "\n") = EntryLines(txn)

\* the accounts the windows of a request returned, and the transactions a
\* window returned for an account
ReturnedAccounts(responses) ==
  UNION {{responses[n][k].id : k \in 1..Len(responses[n])} : n \in 1..Len(responses)}

ReturnedIds(responses, id) ==
  UNION {UNION {{t.id : t \in Range(responses[n][k].transactions)} :
                  k \in {k \in 1..Len(responses[n]) : responses[n][k].id = id}} :
           n \in 1..Len(responses)}

\* C34. Multi-window merge by transaction id: once ingest_simplefin has
\* merged the windows, a transaction id occurs at most once in the list of a
\* merged account and gives at most one canonical transaction for the
\* account; an account id occurs once among the merged accounts; and every
\* account a window returned, with every transaction id a window returned
\* for it, is among them.
C34_MergeByTransactionId ==
  out.call = "ingest_simplefin" =>
    /\ \A a \in 1..Len(out.accounts) :
         LET transactions == out.accounts[a].transactions
         IN  /\ \A m, n \in 1..Len(transactions) :
                  transactions[m].id = transactions[n].id => m = n
             /\ \A b \in 1..Len(out.accounts) : out.accounts[b].id = out.accounts[a].id => a = b
             /\ {t.id : t \in Range(transactions)} = ReturnedIds(out.responses, out.accounts[a].id)
    /\ {out.accounts[a].id : a \in 1..Len(out.accounts)} = ReturnedAccounts(out.responses)
    /\ Len(out.result) <= Cardinality(UNION {{<< id, t >> : t \in ReturnedIds(out.responses, id)} :
                                               id \in ReturnedAccounts(out.responses)})

\* C36. Date-window chunking: for days > 0 every window spans more than
\* nothing and at most 60 days, the first window ends at end_date, each
\* window starts where the next one ends, the last starts at end_date - days
\* (so the windows cover [end_date - days, end_date] and overlap only at the
\* shared endpoints), and there are ceil(days / 60) of them, which is the
\* number of turns the loop took before ending; for days <= 0 there is no
\* window and no request.
C36_WindowChunking ==
  out.call = "windows" =>
    LET windows == out.requests
        n == Len(windows)
    IN  IF out.days <= 0 THEN windows = << >>
        ELSE /\ n = (out.days + 59) \div 60
             /\ \A k \in 1..n :
                  /\ windows[k][1] < windows[k][2]
                  /\ windows[k][2] - windows[k][1] <= 60
             /\ windows[1][2] = out.end_date
             /\ \A k \in 1..(n - 1) : windows[k][1] = windows[k + 1][2]
             /\ windows[n][1] = out.end_date - out.days

\* a range of more than 120 days that is no multiple of 60 has been cut into
\* three windows
C36_Witness ==
  /\ out.call = "windows"
  /\ out.days > 120
  /\ out.days % 60 # 0
  /\ Len(out.requests) = 3

\* the places (window, account, transaction) at which the responses hold a
\* transaction id for an account, and the one fetched first
VersionsOf(responses, acct, id) ==
  {v \in UNION {UNION {{<< n, k, i >> : i \in 1..Len(responses[n][k].transactions)} :
                         k \in 1..Len(responses[n])} : n \in 1..Len(responses)} :
     /\ responses[v[1]][v[2]].id = acct
     /\ responses[v[1]][v[2]].transactions[v[3]].id = id}

FirstVersion(responses, acct, id) ==
  LET before(u, v) ==
        \/ u[1] < v[1]
        \/ u[1] = v[1] /\ u[2] < v[2]
        \/ u[1] = v[1] /\ u[2] = v[2] /\ u[3] <= v[3]
      first == CHOOSE v \in VersionsOf(responses, acct, id) :
                 \A u \in VersionsOf(responses, acct, id) : before(v, u)
  IN  responses[first[1]][first[2]].transactions[first[3]]

\* C35. Merge precedes pending filtering and the first-fetched version
\* wins: the requests go from the most recent window backwards; of the
\* versions of a transaction id the responses hold for an account, the merged
\* account keeps the one fetched first and no other; and the canonical
\* transactions of the run are those of the kept versions that are not
\* pending, so an id whose first-fetched version is pending gives none,
\* whatever a later window holds for it.
C35_FirstFetchedWins ==
  (out.call = "ingest_simplefin" /\ "requests" \in DOMAIN out) =>
    /\ \A n \in 1..(Len(out.requests) - 1) : out.requests[n][2] > out.requests[n + 1][2]
    /\ \A a \in 1..Len(out.accounts) :
         LET acct == out.accounts[a]
         IN  \A id \in ReturnedIds(out.responses, acct.id) :
               LET first == FirstVersion(out.responses, acct.id, id)
                   kept  == {n \in 1..Len(acct.transactions) : acct.transactions[n].id = id}
                   made  == {n \in 1..Len(out.result) :
                               /\ out.result[n].source_id = id
                               /\ out.result[n].account = canonical(acct, first, UtcToday).account}
               IN  /\ Cardinality(kept) = 1
                   /\ \A n \in kept : acct.transactions[n] = first
                   /\ IF first.pending THEN made = {}
                      ELSE /\ Cardinality(made) = 1
                           /\ \A n \in made : out.result[n] = canonical(acct, first, UtcToday)

\* C37. Within-batch deduplication: on the step on which
\* write_staging_journals returns, every fingerprint that was unseen when the
\* call began, however many transactions of the batch carry it, has exactly
\* one entry appended, the entry of the first of them in batch order, and
\* the count returned for an institution is the number of such fingerprints
\* whose first transaction is of that institution.
C37_WithinBatchDedup ==
  [][\A r \in Runs :
       (wpc[r] # "idle" /\ wpc'[r] = "idle" /\ hist'.prev.kind = "done") =>
         LET cur   == hist.cur[r]
             batch == w[r].transactions
             new   == Appended(cur.staging0, staging')
         IN  /\ \A fp \in cur.unseen0 :
                  LET with == {x \in new : staging'[x[1]][x[2]].fp = fp}
                  IN  /\ Cardinality(with) = 1
                      /\ \A x \in with : staging'[x[1]][x[2]] = Entry(FirstWith(batch, fp))
             /\ \A inst \in {txn.institution : txn \in AllTxns} \cup DOMAIN ret' :
                  CountOf(ret', inst)
                    = Cardinality({fp \in cur.unseen0 : FirstWith(batch, fp).institution = inst})]_vars

\* a call has returned whose batch held two transactions of one unseen
\* fingerprint with different entries
C37_Witness ==
  /\ Quiet
  /\ hist.prev.kind = "done"
  /\ Len(hist.prev.batch) = 2
  /\ txn_fingerprint(hist.prev.batch[1]) = txn_fingerprint(hist.prev.batch[2])
  /\ Entry(hist.prev.batch[1]) # Entry(hist.prev.batch[2])
  /\ txn_fingerprint(hist.prev.batch[1]) \in hist.prev.unseen0
  /\ \A inst \in DOMAIN ret : ret[inst] = 1
  /\ Entry(hist.prev.batch[1]) \in EntriesIn(staging)
  /\ Entry(hist.prev.batch[2]) \notin EntriesIn(staging)

\* C38. Ledger entries are covered by the dedup oracle: in every state,
\* those an aborted ingestion or promotion run leaves included, the
\* fingerprint of every entry in a staging file or a posted file is in the
\* DedupStore; and no step of a promotion changes the DedupStore.
C38_EntriesCovered ==
  /\ [](FingerprintsIn(staging) \cup FingerprintsIn(postings) \subseteq DOMAIN seen)
  /\ [][(ppc # "idle" \/ ppc' # "idle") => seen' = seen]_vars

\* a promotion has been aborted after it appended and before it deleted:
\* entries are in staging and under postings
C38_Witness ==
  /\ Quiet
  /\ hist.aborts > 0
  /\ echo.status = "aborted"
  /\ FingerprintsIn(staging) # {}
  /\ FingerprintsIn(postings) # {}

\* C39. Interleaving of ingestion with promotion loses nothing: however the
\* steps of ingestion runs and of promotions that are no dry run interleave,
\* an entry that is in a staging file before a step is, after it, in a
\* staging file or in a posted file; so an entry appended to a staged file
\* between the promotion's read of the file and its removal is not lost.
C39_InterleavingLosesNothing ==
  [][EntriesIn(staging) \subseteq EntriesIn(staging') \cup EntriesIn(postings')]_vars


\* the places of the staged files where an entry of the API transaction
\* txn stands, whatever the day it was pulled on
StagedAt(txn) ==
  {<< f, n >> \in UNION {{<< f, n >> : n \in 1..Len(staging[f])} : f \in DOMAIN staging} :
     \E clock \in 0..MaxClock :
       staging[f][n] = Entry(canonical(ApiAccount(<< >>), txn, utc_today(clock)))}

\* C40: a settled API transaction has one identity on every day, whatever
\* its timestamps, 0 included: pulled by ingestion runs on different days,
\* it is staged at most once.
C40_RunIndependentIdentity ==
  \A txn \in SettledTxns : Cardinality(StagedAt(txn)) <= 1

=============================================================================
